---- MODULE Spec2Model ----
(***************************************************************************)
(* Book-analysis pipeline of chatbotmaker's backend/services/aiService.js: *)
(* analyzeBook (budget, reduction, Extraction Phase, Detail Phase),        *)
(* runWithConcurrency and fetchCharacterDetail.                            *)
(*                                                                         *)
(* JavaScript runs each handler to its next await without interleaving, so *)
(* one action is one continuation: the code from the resolution of an      *)
(* awaited promise to the next await.  Arrays are 1-based here (results[1] *)
(* is the source's results[0]; nextIndex starts at 1).  Text is a sequence *)
(* of one-character strings.  The LLM is the environment: every reply is   *)
(* drawn from a small set with \E.                                         *)
(***************************************************************************)
EXTENDS Integers, Sequences, FiniteSets, TLC

\* ------------------------------------------------------------------------
\* Program constants
\* ------------------------------------------------------------------------
CHARS_PER_TOKEN == 4
\* CONTEXT_INPUT_RATIO = 0.5 and CHUNK_FILL_RATIO = 0.8 as exact fractions.
CONTEXT_INPUT_RATIO_NUM == 1
CONTEXT_INPUT_RATIO_DEN == 2
CHUNK_FILL_RATIO_NUM == 4
CHUNK_FILL_RATIO_DEN == 5
\* config/constants.js exports these three; their values are not part of the
\* sources at hand, the pipeline is parametric in them.
MAX_CONTINUATION_ATTEMPTS == 2
MAX_CHARACTER_RETRIES == 2
MAX_PARALLEL_CHARACTER_CALLS == 2
\* chunkAndSummarize: const maxReduceAttempts = 3
maxReduceAttempts == 3
\* '\n\n---\n\n'.length
JoinSeparatorLen == 7
\* progressTracker.js, in milliseconds
TTL_MS == 3600000
CLEANUP_INTERVAL_MS == 600000
MAX_RESPONSE_TOKENS == 8000
DEFAULT_CONTEXT_LENGTH == 200000
\* the characters of buildExtractionPrompt's template around ${text}
ExtractionScaffold == 1961

\* ------------------------------------------------------------------------
\* Bounds of the model
\* ------------------------------------------------------------------------
\* most entries in the roster of an Extraction reply
MaxRoster == 3
\* the model's context window, in tokens (analyzeBook's contextLength option)
ContextLength == 6
\* lengths of the summaries the LLM returns: one that fits, one over budget
ShortSummary == 2
LongSummary == 13
\* longest text handed to chunkText on its own, in characters
MaxText == 5
\* most chapters handed to chunkByChapters on its own
MaxChapters == 5
\* most entries in the roster handed to validateExtractionResult on its own
MaxEntries == 2
\* most characters handed to generateCharacterCards on its own
MaxCharacters == 3
\* the context windows handed to calcMaxResponseTokens on its own are the
\* first MaxWindows multiples of half of MAX_RESPONSE_TOKENS, and the default
MaxWindows == 8

\* JavaScript's null, and undefined (an unassigned variable or array slot)
NULL == [kind |-> "null"]
UNFILLED == [kind |-> "undefined"]
NL == "\n"

Min(a, b) == IF a < b THEN a ELSE b
Max(a, b) == IF a > b THEN a ELSE b

\* ------------------------------------------------------------------------
\* Budget (analyzeBook, chunkAndSummarize)
\* ------------------------------------------------------------------------
\* as if the product were rounded up
CeilContextSize(contextLength) ==
    (contextLength * CONTEXT_INPUT_RATIO_NUM + CONTEXT_INPUT_RATIO_DEN - 1)
        \div CONTEXT_INPUT_RATIO_DEN

\* Math.floor(contextLength * CONTEXT_INPUT_RATIO)
safeContextSize(contextLength) ==
    (contextLength * CONTEXT_INPUT_RATIO_NUM) \div CONTEXT_INPUT_RATIO_DEN

maxCharsForInput(contextLength) == safeContextSize(contextLength) * CHARS_PER_TOKEN

\* Math.floor(safeContextSize * CHUNK_FILL_RATIO)
chunkTokenSize(safe) == (safe * CHUNK_FILL_RATIO_NUM) \div CHUNK_FILL_RATIO_DEN

\* ------------------------------------------------------------------------
\* Text helpers: String.prototype.split(/\n\n+/), trim, join
\* ------------------------------------------------------------------------
IsSpace(c) == c \in {NL, " "}

RECURSIVE SkipNewlines(_, _)
SkipNewlines(t, i) ==
    IF i <= Len(t) /\ t[i] = NL THEN SkipNewlines(t, i + 1) ELSE i

\* text.split(/\n\n+/): a run of two or more newlines separates paragraphs;
\* a separator at either end leaves an empty paragraph there.
RECURSIVE SplitParagraphs(_, _, _)
SplitParagraphs(t, i, cur) ==
    IF i > Len(t) THEN <<cur>>
    ELSE IF t[i] = NL /\ i < Len(t) /\ t[i + 1] = NL
         THEN <<cur>> \o SplitParagraphs(t, SkipNewlines(t, i), <<>>)
         ELSE SplitParagraphs(t, i + 1, Append(cur, t[i]))

RECURSIVE TrimStart(_)
TrimStart(t) ==
    IF t # <<>> /\ IsSpace(t[1]) THEN TrimStart(Tail(t)) ELSE t

RECURSIVE TrimEnd(_)
TrimEnd(t) ==
    IF t # <<>> /\ IsSpace(t[Len(t)]) THEN TrimEnd(SubSeq(t, 1, Len(t) - 1)) ELSE t

Trim(t) == TrimEnd(TrimStart(t))

\* ------------------------------------------------------------------------
\* Chunker
\* ------------------------------------------------------------------------
\* as if every paragraph went into the current chunk
AlwaysFits(current, paragraph, charsPerChunk) == TRUE

\* (current + paragraph).length < charsPerChunk
Fits(current, paragraph, charsPerChunk) ==
    Len(current \o paragraph) < charsPerChunk

\* as if the pending text were dropped
PushNothing(chunks, current) == chunks

\* if (current) chunks.push(current.trim())
PushTrimmed(chunks, current) ==
    IF current # <<>> THEN Append(chunks, Trim(current)) ELSE chunks

\* The body of chunkText's for loop: state is [chunks, current].
RECURSIVE ChunkLoop(_, _, _, _)
ChunkLoop(paragraphs, k, st, charsPerChunk) ==
    IF k > Len(paragraphs) THEN st
    ELSE LET paragraph == paragraphs[k]
             nxt == IF Fits(st.current, paragraph, charsPerChunk)
                    THEN [st EXCEPT !.current = st.current \o paragraph \o <<NL, NL>>]
                    ELSE [chunks  |-> PushTrimmed(st.chunks, st.current),
                          current |-> paragraph \o <<NL, NL>>]
         IN ChunkLoop(paragraphs, k + 1, nxt, charsPerChunk)

chunkText(text, maxTokens) ==
    LET charsPerChunk == maxTokens * CHARS_PER_TOKEN
        st == ChunkLoop(SplitParagraphs(text, 1, <<>>), 1,
                        [chunks |-> <<>>, current |-> <<>>], charsPerChunk)
    IN PushTrimmed(st.chunks, st.current)

\* A chapter is [title, text]; title = <<>> stands for a missing or empty title.
\* chapter.title ? `--- ${chapter.title} ---\n\n${chapter.text}` : chapter.text
chapterText(chapter) ==
    IF chapter.title # <<>>
    THEN <<"-", "-", "-", " ">> \o chapter.title \o <<" ", "-", "-", "-", NL, NL>>
            \o chapter.text
    ELSE chapter.text

\* as if the pending chunk were kept when it should be pushed
NoFlush(st) == st

\* if (current) { chunks.push(current.trim()); current = ''; }
Flush(st) ==
    IF st.current # <<>>
    THEN [chunks |-> Append(st.chunks, Trim(st.current)), current |-> <<>>]
    ELSE st

\* as if no chapter were too long for a chunk
NeverOversized(text, charsPerChunk) == FALSE

\* chapterText.length > charsPerChunk
Oversized(text, charsPerChunk) == Len(text) > charsPerChunk

\* The body of chunkByChapters' for loop: state is [chunks, current].
RECURSIVE ChapterLoop(_, _, _, _)
ChapterLoop(chapters, k, st, maxTokens) ==
    IF k > Len(chapters) THEN st
    ELSE LET charsPerChunk == maxTokens * CHARS_PER_TOKEN
             text == chapterText(chapters[k])
             nxt == IF Oversized(text, charsPerChunk)
                    THEN LET f == Flush(st)
                         IN [f EXCEPT !.chunks = f.chunks \o chunkText(text, maxTokens)]
                    ELSE LET f == IF st.current # <<>>
                                     /\ Len(st.current) + Len(text) > charsPerChunk
                                  THEN Flush(st)
                                  ELSE st
                         IN [f EXCEPT !.current = f.current \o text \o <<NL, NL>>]
         IN ChapterLoop(chapters, k + 1, nxt, maxTokens)

chunkByChapters(chapters, maxTokens) ==
    LET st == ChapterLoop(chapters, 1, [chunks |-> <<>>, current |-> <<>>], maxTokens)
    IN PushTrimmed(st.chunks, st.current)

\* ------------------------------------------------------------------------
\* JavaScript values: NULL, UNFILLED (undefined, a missing property) or a
\* record with its kind: a string with its characters s, a number with its
\* digits n, a boolean b, an array with its items, an object with its
\* members [k, v] in the order of their keys (JObject) or, where the
\* properties are known, with one field per property.
\* ------------------------------------------------------------------------
JString(chars) == [kind |-> "string", s |-> chars]
JNumber(digits) == [kind |-> "number", n |-> digits]
JBoolean(b) == [kind |-> "boolean", b |-> b]
JArray(items) == [kind |-> "array", items |-> items]
JObject(members) == [kind |-> "object", members |-> members]

\* !v
Falsy(v) ==
    \/ v = UNFILLED
    \/ v = NULL
    \/ v = JString(<<>>)
    \/ v = JBoolean(FALSE)
    \/ v = JNumber(<<"0">>)

\* { setting: '', locations: [], factions: [], items: [], concepts: [] }
EmptyWorldInfo ==
    [kind |-> "object", setting |-> JString(<<>>), locations |-> JArray(<<>>),
     factions |-> JArray(<<>>), items |-> JArray(<<>>), concepts |-> JArray(<<>>)]

\* ------------------------------------------------------------------------
\* Inputs and the LLM's replies
\* ------------------------------------------------------------------------
Str(n, c) == [i \in 1..n |-> c]

\* bookText: one book within the input budget, one over it (two paragraphs).
Books == { Str(2, "a"),
           Str(6, "a") \o <<NL, NL>> \o Str(6, "b") }

\* A roster entry of an Extraction reply: does it carry a name, a role.
EntryKinds == { [name |-> TRUE,  role |-> TRUE],
                [name |-> FALSE, role |-> TRUE],
                [name |-> TRUE,  role |-> FALSE] }

RawRosters == UNION { [1..n -> EntryKinds] : n \in 0..MaxRoster }

\* What parseAIResponse makes of a reply buffer: parses = FALSE when it
\* throws; isArray = FALSE when the parsed object has no characters array.
\* With each piece of text it sends, the LLM decides what the buffer that
\* ends with the piece parses to.
\* worldInfo is the parsed object's worldInfo property.
Unparsed ==
    [parses |-> FALSE, isArray |-> FALSE, characters |-> <<>>, worldInfo |-> UNFILLED]

\* a worldInfo with a setting, one location with a keyword, and no factions,
\* items or concepts
Setting == JString(<<"s">>)
Location ==
    [kind |-> "object", name |-> JString(<<"l">>),
     keywords |-> JArray(<<JString(<<"k">>)>>)]
FilledWorldInfo ==
    [EmptyWorldInfo EXCEPT !.setting = Setting, !.locations = JArray(<<Location>>)]

ParseResultsWith(worldInfos) ==
    { Unparsed, [Unparsed EXCEPT !.parses = TRUE] }
    \cup { [parses |-> TRUE, isArray |-> TRUE, characters |-> r, worldInfo |-> w] :
                r \in RawRosters, w \in worldInfos }

ParseResults == ParseResultsWith({FilledWorldInfo})

\* Why an axios call failed: error.code ECONNABORTED, error.response,
\* error.request, or a 2xx reply without message content.
ErrorKinds == {"timeout", "http", "network", "envelope"}

SummaryLens == {ShortSummary, LongSummary}

\* ------------------------------------------------------------------------
\* Reduction Engine (chunkAndSummarize) on lengths
\* ------------------------------------------------------------------------
RECURSIVE SumSeq(_)
SumSeq(s) == IF s = <<>> THEN 0 ELSE Head(s) + SumSeq(Tail(s))

\* summaries.join('\n\n---\n\n').length
JoinLen(summaries) ==
    IF summaries = <<>> THEN 0
    ELSE SumSeq(summaries) + JoinSeparatorLen * (Len(summaries) - 1)

\* combined.slice(0, end).length
SliceLen(len, end) == IF end >= 0 THEN Min(len, end) ELSE Max(len + end, 0)

\* the while condition of the reduction loop
NeedsReduce(combinedLen, attempt, maxChars) ==
    combinedLen > maxChars /\ attempt < maxReduceAttempts

\* as if the text were cut and marked whatever its length
AlwaysTruncated(combinedLen, maxChars) == SliceLen(combinedLen, maxChars - 1) + 1

\* `${combined.slice(0, maxCharsForInput - 1)}...` when still over budget
Truncated(combinedLen, maxChars) ==
    IF combinedLen > maxChars THEN SliceLen(combinedLen, maxChars - 1) + 1
    ELSE combinedLen

\* as if every book were reduced
AlwaysOver(len, maxChars) == TRUE

\* bookText.length > maxCharsForInput
OverBudget(len, maxChars) == len > maxChars

\* a summary: the chunk it was requested for and its length
Summary(chunk, len) == [chunk |-> chunk, len |-> len]

Lens(sums) == [k \in DOMAIN sums |-> sums[k].len]

\* as if each summary were put in front of the earlier ones
PrependSummary(sums, s) == <<s>> \o sums

\* summaries.push(await summarizeChunk(chunks[i], ...))
AddSummary(sums, s) == Append(sums, s)

\* chunkAndSummarize has not run
NotReduced == [ran |-> FALSE, attempts |-> 0, final |-> 0, marker |-> FALSE]

\* as if the filter tested the name only
KeepNamed(c) == c.name

\* ------------------------------------------------------------------------
\* Phase 1 validation
\* ------------------------------------------------------------------------
\* result.characters.filter(c => c.name && c.role)
KeepEntry(c) == c.name /\ c.role

FilterRoster(raw) == SelectSeq(raw, KeepEntry)

\* validateExtractionResult(parsed) returns (TRUE) or throws, parsed being
\* what parseAIResponse(content) returned or threw
ExtractionValid(parsed) ==
    /\ parsed.parses
    /\ parsed.isArray
    /\ Len(FilterRoster(parsed.characters)) # 0

\* if (!x.worldInfo) x.worldInfo = { setting: '', locations: [], ... }
DefaultWorldInfo(worldInfo) ==
    IF Falsy(worldInfo) THEN EmptyWorldInfo ELSE worldInfo

ExtractionOf(parsed) ==
    [characters |-> FilterRoster(parsed.characters),
     worldInfo |-> DefaultWorldInfo(parsed.worldInfo)]

\* ------------------------------------------------------------------------
\* State
\* ------------------------------------------------------------------------
VARIABLES
    apiKey,          \* analyzeBook option: is an API key supplied
    bookText,        \* analyzeBook argument
    contextLength,   \* analyzeBook option: the context window, in tokens
    chapters,        \* analyzeBook option: the chapters, <<>> when null or empty
    call,            \* a helper function called on its own: its arguments and,
                     \*   once it returned, its result (NoCall in analyzeBook's runs)
    progressStore,   \* progressTracker.js: progressStore, session id to entry
    polled,          \* what the last getProgress returned, UNFILLED before
    apc,             \* where analyzeBook is: start, summarize, resummarize,
                     \*   extract, extract_cont, detail, done, failed
    error,           \* the error analyzeBook threw ("none" until it throws)
    errorCites,      \* the parse errors which that error's message cites
    chunks,          \* chunkAndSummarize: chunks
    summaries,       \* chunkAndSummarize: the summaries so far (see Summary)
    combined,        \* chunkAndSummarize: length of combined
    reduceAttempt,   \* chunkAndSummarize: reduceAttempt
    textToAnalyze,   \* analyzeBook: length of textToAnalyze
    exContent,       \* Phase 1: content, as the number of pieces received
    exParsed,        \* Phase 1: what parseAIResponse(content) yields
    exAttempt,       \* Phase 1: attempt of the continuation loop (0 outside)
    exFinishReason,  \* Phase 1: finishReason ("none" before the reply)
    extraction,      \* Phase 1: the validated extraction, NULL before
    calls,           \* requests sent so far: summarize, extract, extractCont
    inflight,        \* the HTTP requests awaiting their reply
    tasks,           \* Phase 2: one fetchCharacterDetail call per roster entry
    results,         \* runWithConcurrency: results
    nextIndex,       \* runWithConcurrency: nextIndex
    workers,         \* runWithConcurrency: the worker() promises
    analysis,        \* what analyzeBook returned, NULL before
    launched,        \* history: how often tasks[i]() was called
    written,         \* history: how often results[i] was assigned
    detailReqs,      \* history: initial Detail requests sent per roster entry
    finishSeq,       \* history: roster indices in the order their tasks settled
    reduced          \* history: how chunkAndSummarize ended (see ReduceLoop)

vars == <<apiKey, bookText, contextLength, chapters, call, progressStore, polled, apc, error, errorCites, chunks, summaries, combined, reduceAttempt,
          textToAnalyze, exContent, exParsed, exAttempt, exFinishReason, extraction,
          calls, inflight,
          tasks, results, nextIndex, workers, analysis, launched, written,
          detailReqs, finishSeq, reduced>>

\* what no step of analyzeBook assigns
argVars == <<apiKey, bookText, contextLength, chapters, call, progressStore, polled>>
reductionVars == <<chunks, summaries, combined, reduceAttempt, reduced>>
extractionVars == <<exContent, exParsed, exAttempt, exFinishReason, extraction>>
errorVars == <<error, errorCites>>
poolVars == <<tasks, results, nextIndex, workers, launched, written,
              detailReqs, finishSeq>>

\* as if a reply were continued whatever its finish reason
AnyFinish(finishReason) == TRUE

\* if (finishReason === 'length')
IsLength(finishReason) == finishReason = "length"

\* a request in flight: its kind, the roster entry it is for (0: none) and
\* the length of the book text or summary it carries
Req(kind, item, len) == [kind |-> kind, item |-> item, len |-> len]

\* ------------------------------------------------------------------------
\* Phase 2: fetchCharacterDetail, one call as a record
\*   st: pending (not called), request (awaiting requestAnalysis),
\*       cont (awaiting continueResponse), fulfilled, rejected
\* ------------------------------------------------------------------------
\*   content: the pieces of text in the reply buffer, each tagged with the
\*       roster entry and the attempt it was received for
\*   parses: does validateCharacterDetail(parseAIResponse(content)) return
\*       (the LLM decides with each piece whether the buffer now parses)
\*   finishReason: the finish reason of the attempt's initial reply
\*   sink: are updateProgress and sessionId both supplied to the call
\*   said: the last message the call gave the sink in its latest step
PendingTask == [st |-> "pending", retry |-> 0, attempt |-> 0, content |-> <<>>,
                parses |-> FALSE, finishReason |-> "none", value |-> UNFILLED,
                sink |-> FALSE, said |-> "none"]

\* the session id of the request
SessionId == "s1"

\* progressStore.set(sessionId, { value: { message, timestamp: now }, createdAt: now })
updateProgress(store, sessionId, message) ==
    (sessionId :> [message |-> message, age |-> 0]) @@ store

\* as if a call of the sink threw out of fetchCharacterDetail
progressThrows(t, msg) ==
    IF t.sink THEN [t EXCEPT !.said = msg, !.st = "rejected"] ELSE t

\* const progress = (msg) => { if (updateProgress && sessionId)
\*     updateProgress(sessionId, msg); }
progress(t, msg) == IF t.sink THEN [t EXCEPT !.said = msg] ELSE t

DetailReplies(i, r) ==
    { [kind |-> "error", err |-> e] : e \in ErrorKinds }
    \cup { [kind |-> "content", finishReason |-> f,
             piece |-> [item |-> i, retry |-> r], parses |-> b]
           : f \in {"stop", "length"}, b \in BOOLEAN }

\* continueResponse throws on a transport error and returns '' when the
\* reply has no message content
ContinuationReplies(i, r) ==
    { [kind |-> "error", err |-> e] : e \in ErrorKinds \ {"envelope"} }
    \cup { [kind |-> "empty"] }
    \cup { [kind |-> "content", piece |-> [item |-> i, retry |-> r], parses |-> b]
           : b \in BOOLEAN }

\* the validated profile of roster entry i
Profile(i) == [kind |-> "profile", item |-> i]

\* the call returns (fulfilled) or throws (rejected); its locals end
Settle(t, st, v) == [st |-> st, retry |-> 0, attempt |-> 0, content |-> <<>>,
                     parses |-> FALSE, finishReason |-> "none", value |-> v,
                     sink |-> t.sink, said |-> "none"]

\* as if content were declared once, outside the retry loop
SharedContent(old) == old

\* `let { content, finishReason } = await requestAnalysis(...)` inside the
\* loop body: every attempt gets a new binding, which the reply then fills
FreshContent(old) == <<>>

\* progress(.. Generating details for ..) is the last message before the await
NewAttempt(t, retry) ==
    progress([st |-> "request", retry |-> retry, attempt |-> 0,
              content |-> FreshContent(t.content), parses |-> FALSE,
              finishReason |-> "none", value |-> UNFILLED,
              sink |-> t.sink, said |-> "none"], "generating")

\* as if the loop never advanced retry
SameRetry(retry) == retry

\* the for statement: retry++ ; retry <= MAX_CHARACTER_RETRIES
NextRetry(retry) == retry + 1

LoopContinues(retry) == retry <= MAX_CHARACTER_RETRIES

\* as if the catch rethrew after the last attempt
Rethrow(t) == Settle(t, "rejected", UNFILLED)

\* catch: `return null` after the last attempt
GiveUp(t) == progress(Settle(t, "fulfilled", NULL), "skipping")

\* as if the catch allowed one retry more
CatchOnceMore(t) ==
    IF t.retry < MAX_CHARACTER_RETRIES + 1
    THEN NewAttempt(t, NextRetry(t.retry))
    ELSE GiveUp(t)

\* catch (error) { if (retry < MAX_CHARACTER_RETRIES) continue; return null }
\* and the `return null` behind the loop
Catch(t) ==
    IF t.retry < MAX_CHARACTER_RETRIES
    THEN IF LoopContinues(NextRetry(t.retry))
         THEN NewAttempt(t, NextRetry(t.retry))
         ELSE Settle(t, "fulfilled", NULL)
    ELSE GiveUp(t)

\* const detail = validateCharacterDetail(parseAIResponse(content), ...);
\* return detail  -- inside the try
ParseOrCatch(t, i) ==
    IF t.parses THEN progress(Settle(t, "fulfilled", Profile(i)), "completed")
    ELSE Catch(t)

\* as if a timeout ended the item at once
TimeoutGivesUp(t, err) == IF err = "timeout" THEN GiveUp(t) ELSE Catch(t)

\* a call inside the try threw err: catch (error) does not look at the error
OnError(t, err) == Catch(t)

\* as if the buffer were parsed only behind the continuation loop
NeverValidates(t) == FALSE

\* try { return validateCharacterDetail(parseAIResponse(content), ...) }
\* inside the continuation loop: does it return
Validates(t) == t.parses

\* the continuation after `await requestAnalysis(...)`
OnDetailReply(t, i, reply) ==
    IF reply.kind = "error" THEN OnError(t, reply.err)
    ELSE LET got == [t EXCEPT !.content = Append(t.content, reply.piece),
                              !.parses = reply.parses,
                              !.finishReason = reply.finishReason]
         IN IF IsLength(reply.finishReason) /\ 1 <= MAX_CONTINUATION_ATTEMPTS
            THEN progress([got EXCEPT !.st = "cont", !.attempt = 1], "truncated")
            ELSE ParseOrCatch(got, i)

\* the continuation after `await continueResponse(...)`
OnDetailContinuation(t, i, reply) ==
    IF reply.kind = "error" THEN OnError(t, reply.err)
    ELSE IF reply.kind = "empty" THEN ParseOrCatch(t, i)
    ELSE LET got == [t EXCEPT !.content = Append(t.content, reply.piece),
                              !.parses = reply.parses]
         IN IF Validates(got) THEN Settle(got, "fulfilled", Profile(i))
            ELSE IF t.attempt + 1 <= MAX_CONTINUATION_ATTEMPTS
                 THEN progress([got EXCEPT !.attempt = t.attempt + 1], "truncated")
                 ELSE ParseOrCatch(got, i)

\* the request a call of fetchCharacterDetail is awaiting, if any
TaskRequests(ts, len) ==
    { Req("detail", i, len) : i \in { j \in DOMAIN ts : ts[j].st = "request" } }
    \cup { Req("continue_detail", i, len) : i \in { j \in DOMAIN ts : ts[j].st = "cont" } }

\* as if one worker were started per task
OneWorkerPerTask(concurrency, n) == n

\* ------------------------------------------------------------------------
\* runWithConcurrency
\* ------------------------------------------------------------------------
\* Array.from({ length: Math.min(concurrency, tasks.length) }, ...)
WorkerCount(concurrency, n) == Min(concurrency, n)

\* as if nextIndex were not advanced when an index is claimed
NoAdvance(index) == index

\* const index = nextIndex++
AfterClaim(index) == index + 1

\* as if results were pushed in completion order
StoreInCompletionOrder(res, index, value) ==
    LET free == { k \in DOMAIN res : res[k] = UNFILLED }
    IN IF free = {} THEN res
       ELSE [res EXCEPT ![CHOOSE k \in free : \A m \in free : k <= m] = value]

\* results[index] = await tasks[index]()
StoreResult(res, index, value) == [res EXCEPT ![index] = value]

\* as if a worker ran one task only
WorkerRunsOnce(p, w) ==
    IF p.workers[w].st = "new" /\ p.nextIndex <= Len(p.tasks)
    THEN LET index == p.nextIndex
         IN [p EXCEPT !.nextIndex = AfterClaim(index),
                      !.tasks[index] = NewAttempt(p.tasks[index], 0),
                      !.launched[index] = @ + 1,
                      !.detailReqs[index] = @ + 1,
                      !.workers[w] = [st |-> "awaiting", index |-> index]]
    ELSE [p EXCEPT !.workers[w] = [st |-> "done", index |-> 0]]

\* One worker() run from its loop head to its next await: claim an index
\* and call the task, or leave the loop.  p is the pool state.
WorkerLoop(p, w) ==
    IF p.nextIndex <= Len(p.tasks)
    THEN LET index == p.nextIndex
         IN [p EXCEPT !.nextIndex = AfterClaim(index),
                      !.tasks[index] = NewAttempt(p.tasks[index], 0),
                      !.launched[index] = @ + 1,
                      !.detailReqs[index] = @ + 1,
                      !.workers[w] = [st |-> "awaiting", index |-> index]]
    ELSE [p EXCEPT !.workers[w] = [st |-> "done", index |-> 0]]

\* the worker() calls of Array.from, in order
RECURSIVE SpawnWorkers(_, _, _)
SpawnWorkers(p, w, count) ==
    IF w > count THEN p ELSE SpawnWorkers(WorkerLoop(p, w), w + 1, count)

\* runWithConcurrency(tasks, concurrency) up to `await Promise.all(workers)`
StartPool(n, concurrency) ==
    LET count == WorkerCount(concurrency, n)
        p0 == [tasks      |-> [i \in 1..n |-> PendingTask],
               results    |-> [i \in 1..n |-> UNFILLED],
               nextIndex  |-> 1,
               workers    |-> [w \in 1..count |-> [st |-> "new", index |-> 0]],
               launched   |-> [i \in 1..n |-> 0],
               detailReqs |-> [i \in 1..n |-> 0]]
    IN SpawnWorkers(p0, 1, count)

\* Promise.all(workers): rejected as soon as one worker is, fulfilled when
\* all are
PoolRejected(ws) == \E w \in DOMAIN ws : ws[w].st = "rejected"

\* as if the pool were awaited with Promise.race
AnyWorkerDone(ws) == \E w \in DOMAIN ws : ws[w].st = "done"

PoolFulfilled(ws) == \A w \in DOMAIN ws : ws[w].st = "done"

\* as if the filter kept null entries
KeepsNull(c) == c # UNFILLED

\* characterDetails.filter(c => c !== null); filter skips the holes of
\* new Array(n)
IsCharacter(c) == c # NULL /\ c # UNFILLED

SuccessfulCharacters(res) == SelectSeq(res, IsCharacter)

\* ------------------------------------------------------------------------
\* analyzeBook
\* ------------------------------------------------------------------------
NoError == [phase |-> "none", cause |-> "none"]

NoCall == [fn |-> "none"]

\* analyzeBook's locals before its first statement, the progress store as
\* the server starts with it
NotStarted ==
    /\ progressStore = <<>>
    /\ polled = UNFILLED
    /\ apc = "start"
    /\ error = NoError
    /\ errorCites = {}
    /\ chunks = <<>>
    /\ summaries = <<>>
    /\ combined = 0
    /\ reduceAttempt = 0
    /\ textToAnalyze = 0
    /\ exContent = 0
    /\ exParsed = Unparsed
    /\ exAttempt = 0
    /\ exFinishReason = "none"
    /\ extraction = NULL
    /\ calls = [summarize |-> 0, extract |-> 0, extractCont |-> 0]
    /\ inflight = {}
    /\ tasks = <<>>
    /\ results = <<>>
    /\ nextIndex = 1
    /\ workers = <<>>
    /\ analysis = NULL
    /\ launched = <<>>
    /\ written = <<>>
    /\ detailReqs = <<>>
    /\ finishSeq = <<>>
    /\ reduced = NotReduced

InitWith(contextLengths) ==
    /\ apiKey \in BOOLEAN
    /\ bookText \in Books
    /\ contextLength \in contextLengths
    /\ chapters = <<>>
    /\ call = NoCall
    /\ NotStarted

Init == InitWith({ContextLength})

\* analyzeBook throws an Error whose message cites the given parse errors;
\* inf are the requests still awaiting a reply
ThrowCiting(inf, phase, cause, cites) ==
    /\ apc' = "failed"
    /\ error' = [phase |-> phase, cause |-> cause]
    /\ errorCites' = cites
    /\ inflight' = inf

Throw(inf, phase, cause) == ThrowCiting(inf, phase, cause, {})

\* textToAnalyze is set; Phase 1 up to `await requestAnalysis(extractionPrompt, ...)`
ToExtraction(inf, len) ==
    /\ textToAnalyze' = len
    /\ apc' = "extract"
    /\ inflight' = inf \cup {Req("extract", 0, len)}
    /\ calls' = [calls EXCEPT !.extract = @ + 1]
    /\ UNCHANGED errorVars

\* up to `await summarizeChunk(text, ...)`
ToSummarize(inf, pc, item, len) ==
    /\ apc' = pc
    /\ inflight' = inf \cup {Req("summarize", item, len)}
    /\ calls' = [calls EXCEPT !.summarize = @ + 1]
    /\ UNCHANGED <<textToAnalyze, errorVars>>

\* chunkAndSummarize from the test of its while loop to the next await; its
\* locals end with its return.  reduced keeps how it ended: the number of
\* re-summarizations, the length of combined behind the loop and whether the
\* truncation marker was appended.
ReduceLoop(inf, sums, len, attempt) ==
    IF NeedsReduce(len, attempt, maxCharsForInput(contextLength))
    THEN /\ combined' = len
         /\ reduceAttempt' = attempt + 1
         /\ summaries' = sums
         /\ UNCHANGED <<chunks, reduced>>
         /\ ToSummarize(inf, "resummarize", 0, len)
    ELSE /\ combined' = 0
         /\ reduceAttempt' = 0
         /\ chunks' = <<>>
         /\ summaries' = <<>>
         /\ reduced' = [ran |-> TRUE, attempts |-> attempt, final |-> len,
                        marker |-> len > maxCharsForInput(contextLength)]
         /\ ToExtraction(inf, Truncated(len, maxCharsForInput(contextLength)))

\* the call of analyzeBook, to its first await
AnalyzeBook ==
    /\ apc = "start"
    /\ UNCHANGED <<argVars, extractionVars, poolVars, analysis>>
    /\ IF ~apiKey
       THEN /\ Throw(inflight, "arguments", "apiKey")
            /\ UNCHANGED <<reductionVars, textToAnalyze, calls>>
       ELSE IF OverBudget(Len(bookText), maxCharsForInput(contextLength))
       THEN LET size == chunkTokenSize(safeContextSize(contextLength))
                cs == IF Len(chapters) > 0
                      THEN chunkByChapters(chapters, size)
                      ELSE chunkText(bookText, size)
            IN IF Len(cs) > 0
               THEN /\ chunks' = cs
                    /\ UNCHANGED <<summaries, combined, reduceAttempt, reduced>>
                    /\ ToSummarize(inflight, "summarize", 1, Len(cs[1]))
               ELSE ReduceLoop(inflight, <<>>, JoinLen(<<>>), 0)
       ELSE /\ UNCHANGED reductionVars
            /\ ToExtraction(inflight, Len(bookText))

SummarizeReplies == [ok : {FALSE}, err : ErrorKinds, len : {0}]
                    \cup [ok : {TRUE}, err : {"none"}, len : SummaryLens]

\* the reply to the summarizeChunk call of chunk Len(summaries) + 1, the
\* reply drawn from replies
SummarizeReplyFrom(replies) ==
    /\ apc = "summarize"
    /\ \E r \in inflight, reply \in replies :
         /\ r.kind = "summarize"
         /\ UNCHANGED <<argVars, extractionVars, poolVars, analysis>>
         /\ IF ~reply.ok
            THEN /\ Throw(inflight \ {r}, "reduction", reply.err)
                 /\ UNCHANGED <<reductionVars, textToAnalyze, calls>>
            ELSE LET sums == AddSummary(summaries, Summary(r.item, reply.len))
                 IN IF Len(sums) < Len(chunks)
                    THEN /\ summaries' = sums
                         /\ UNCHANGED <<chunks, combined, reduceAttempt, reduced>>
                         /\ ToSummarize(inflight \ {r}, "summarize", Len(sums) + 1,
                                        Len(chunks[Len(sums) + 1]))
                    ELSE ReduceLoop(inflight \ {r}, sums, JoinLen(Lens(sums)), 0)

SummarizeReply == SummarizeReplyFrom(SummarizeReplies)

\* the reply to summarizeChunk(combined, ...) in the reduction loop
ResummarizeReplyFrom(replies) ==
    /\ apc = "resummarize"
    /\ \E r \in inflight, reply \in replies :
         /\ r.kind = "summarize"
         /\ UNCHANGED <<argVars, extractionVars, poolVars, analysis>>
         /\ IF ~reply.ok
            THEN /\ Throw(inflight \ {r}, "reduction", reply.err)
                 /\ UNCHANGED <<reductionVars, textToAnalyze, calls>>
            ELSE ReduceLoop(inflight \ {r}, summaries, reply.len, reduceAttempt)

ResummarizeReply == ResummarizeReplyFrom(SummarizeReplies)

\* ---- Phase 1 ----
ExtractionReplies ==
    [kind : {"error"}, err : ErrorKinds, finishReason : {"none"}, parsed : {Unparsed}]
    \cup [kind : {"content"}, err : {"none"}, finishReason : {"stop", "length"},
          parsed : ParseResults]

ExtractionContinuations ==
    [kind : {"error"}, err : ErrorKinds \ {"envelope"}, parsed : {Unparsed}]
    \cup [kind : {"empty"}, err : {"none"}, parsed : {Unparsed}]
    \cup [kind : {"content"}, err : {"none"}, parsed : ParseResults]

\* as if the message kept the error of the repaired text only
OnlyRepairError == {"repair_parse_error"}

\* parseAIResponse's throw: `Failed to parse AI response after repair
\* attempt: ${err.message}. Initial parse error: ${initialParseError.message}`
ParseErrorCites == {"repair_parse_error", "initial_parse_error"}

\* the Error validateExtractionResult(parseAIResponse(content)) throws
ExtractionError(parsed) ==
    IF ~parsed.parses THEN "parse"
    ELSE IF ~parsed.isArray THEN "no_characters_array"
    ELSE "no_valid_characters"

\* the message the catch of Phase 1 picks by error.code, error.response and
\* error.request
ExtractionCause(err) ==
    CASE err = "timeout" -> "timed_out"
      [] err = "http"    -> "service_error"
      [] err = "network" -> "no_response"
      [] OTHER           -> "extraction_failed"

\* the parse errors cited by the message of the rethrown Error: only
\* `AI extraction failed: ${error.message}` keeps the message of the cause
RethrownCites(err) ==
    IF ExtractionCause(err) = "extraction_failed" /\ err = "parse"
    THEN ParseErrorCites ELSE {}

\* the catch of Phase 1 rethrows; the locals of the try block are shown as
\* they were at the throw
ExtractionThrows(inf, err, pieces, parsed, finish) ==
    /\ ThrowCiting(inf, "extraction", ExtractionCause(err), RethrownCites(err))
    /\ exContent' = pieces
    /\ exParsed' = parsed
    /\ exFinishReason' = finish
    /\ UNCHANGED <<exAttempt, poolVars, extraction, calls>>

\* Phase 2 from the validated extraction to `await Promise.all(workers)`
BeginDetail(inf, ex) ==
    LET p == StartPool(Len(ex.characters), MAX_PARALLEL_CHARACTER_CALLS)
    IN /\ extraction' = ex
       /\ exContent' = 0
       /\ exParsed' = Unparsed
       /\ exAttempt' = 0
       /\ exFinishReason' = "none"
       /\ apc' = "detail"
       /\ inflight' = inf
       /\ tasks' = p.tasks
       /\ results' = p.results
       /\ nextIndex' = p.nextIndex
       /\ workers' = p.workers
       /\ launched' = p.launched
       /\ detailReqs' = p.detailReqs
       /\ written' = [i \in 1..Len(ex.characters) |-> 0]
       /\ finishSeq' = <<>>
       /\ UNCHANGED <<errorVars, calls>>

\* if (!extraction) extraction = validateExtractionResult(parseAIResponse(content))
FinishExtraction(inf, pieces, parsed, finish) ==
    IF ExtractionValid(parsed)
    THEN BeginDetail(inf, ExtractionOf(parsed))
    ELSE ExtractionThrows(inf, ExtractionError(parsed), pieces, parsed, finish)

\* up to `await continueResponse(extractionPrompt, content, ...)`
ToExtractionContinuation(inf, pieces, parsed, attempt, finish) ==
    /\ exContent' = pieces
    /\ exParsed' = parsed
    /\ exAttempt' = attempt
    /\ exFinishReason' = finish
    /\ apc' = "extract_cont"
    /\ inflight' = inf \cup {Req("continue_extract", 0, textToAnalyze)}
    /\ calls' = [calls EXCEPT !.extractCont = @ + 1]
    /\ UNCHANGED <<errorVars, extraction, poolVars>>

\* the reply to Phase 1's requestAnalysis, the reply drawn from replies
ExtractReplyFrom(replies) ==
    /\ apc = "extract"
    /\ \E r \in inflight, reply \in replies :
         /\ r.kind = "extract"
         /\ UNCHANGED <<argVars, reductionVars, textToAnalyze, analysis>>
         /\ IF reply.kind = "error"
            THEN ExtractionThrows(inflight \ {r}, reply.err, 0, Unparsed, "none")
            ELSE IF IsLength(reply.finishReason) /\ 1 <= MAX_CONTINUATION_ATTEMPTS
            THEN ToExtractionContinuation(inflight \ {r}, 1, reply.parsed, 1,
                                          reply.finishReason)
            ELSE FinishExtraction(inflight \ {r}, 1, reply.parsed, reply.finishReason)

ExtractReply == ExtractReplyFrom(ExtractionReplies)

\* the reply to Phase 1's continueResponse
ExtractContReplyFrom(replies) ==
    /\ apc = "extract_cont"
    /\ \E r \in inflight, reply \in replies :
         /\ r.kind = "continue_extract"
         /\ UNCHANGED <<argVars, reductionVars, textToAnalyze, analysis>>
         /\ IF reply.kind = "error"
            THEN ExtractionThrows(inflight \ {r}, reply.err, exContent, exParsed,
                                  exFinishReason)
            ELSE IF reply.kind = "empty"
            THEN FinishExtraction(inflight \ {r}, exContent, exParsed, exFinishReason)
            ELSE \* content += continuation
                 IF ExtractionValid(reply.parsed)
                 THEN BeginDetail(inflight \ {r}, ExtractionOf(reply.parsed))
                 ELSE IF exAttempt + 1 <= MAX_CONTINUATION_ATTEMPTS
                 THEN ToExtractionContinuation(inflight \ {r}, exContent + 1,
                                               reply.parsed, exAttempt + 1,
                                               exFinishReason)
                 ELSE FinishExtraction(inflight \ {r}, exContent + 1, reply.parsed,
                                       exFinishReason)

ExtractContReply == ExtractContReplyFrom(ExtractionContinuations)

\* ---- Phase 2 ----
Settled(t) == t.st \in {"fulfilled", "rejected"}

\* the bookkeeping of one step of fetchCharacterDetail for roster entry i
TaskStep(i, t) ==
    /\ tasks' = [tasks EXCEPT ![i] = t]
    /\ detailReqs' = IF t.st = "request"
                     THEN [detailReqs EXCEPT ![i] = @ + 1] ELSE detailReqs
    /\ finishSeq' = IF Settled(t) THEN Append(finishSeq, i) ELSE finishSeq
    /\ progressStore' = IF t.sink /\ t.said # "none"
                        THEN updateProgress(progressStore, SessionId, t.said)
                        ELSE progressStore
    /\ UNCHANGED <<apiKey, bookText, contextLength, chapters, call, polled,
                   apc, errorVars, reductionVars, textToAnalyze,
                   extractionVars, calls, inflight, results, nextIndex,
                   workers, analysis, launched, written>>

\* the reply to fetchCharacterDetail's requestAnalysis for roster entry i,
\* the reply drawn from replies
DetailReplyFrom(i, replies) ==
    /\ tasks[i].st = "request"
    /\ \E reply \in replies : TaskStep(i, OnDetailReply(tasks[i], i, reply))

DetailReply(i) == DetailReplyFrom(i, DetailReplies(i, tasks[i].retry))

\* the reply to fetchCharacterDetail's continueResponse for roster entry i
DetailContinuationFrom(i, replies) ==
    /\ tasks[i].st = "cont"
    /\ \E reply \in replies : TaskStep(i, OnDetailContinuation(tasks[i], i, reply))

DetailContinuation(i) ==
    DetailContinuationFrom(i, ContinuationReplies(i, tasks[i].retry))

\* worker w resumes behind `await tasks[index]()`
WorkerResume(w) ==
    /\ workers[w].st = "awaiting"
    /\ Settled(tasks[workers[w].index])
    /\ UNCHANGED <<argVars, apc, errorVars, reductionVars, textToAnalyze,
                   extractionVars, calls, inflight, analysis, finishSeq>>
    /\ LET index == workers[w].index
       IN IF tasks[index].st = "rejected"
          THEN /\ workers' = [workers EXCEPT ![w].st = "rejected"]
               /\ UNCHANGED <<tasks, results, nextIndex, launched, written, detailReqs>>
          ELSE LET p == WorkerLoop(
                          [tasks      |-> tasks,
                           results    |-> StoreResult(results, index, tasks[index].value),
                           nextIndex  |-> nextIndex,
                           workers    |-> workers,
                           launched   |-> launched,
                           detailReqs |-> detailReqs], w)
               IN /\ tasks' = p.tasks
                  /\ results' = p.results
                  /\ nextIndex' = p.nextIndex
                  /\ workers' = p.workers
                  /\ launched' = p.launched
                  /\ detailReqs' = p.detailReqs
                  /\ written' = [written EXCEPT ![index] = @ + 1]

\* as if the empty result were not rejected
NeverEmpty(successful) == FALSE

\* if (successfulCharacters.length === 0) throw
NoCharacters(successful) == Len(successful) = 0

\* as if assembly started from the empty structure
ClearedAnalysis(a) == [a EXCEPT !.worldInfo = EmptyWorldInfo]

\* validateAnalysis(analysis): characters is an array here, so it does not
\* throw; a falsy worldInfo becomes the empty structure
validateAnalysis(a) == [a EXCEPT !.worldInfo = DefaultWorldInfo(@)]

\* analyzeBook resumes behind `await runWithConcurrency(...)`
Assemble ==
    /\ apc = "detail"
    /\ PoolRejected(workers) \/ PoolFulfilled(workers)
    /\ UNCHANGED <<argVars, reductionVars, textToAnalyze,
                   extractionVars, calls, poolVars>>
    /\ IF PoolRejected(workers)
       THEN /\ Throw(inflight, "detail", "task_error")
            /\ UNCHANGED analysis
       ELSE LET successfulCharacters == SuccessfulCharacters(results)
            IN IF NoCharacters(successfulCharacters)
               THEN /\ Throw(inflight, "detail", "no_characters")
                    /\ UNCHANGED analysis
               ELSE /\ analysis' = validateAnalysis(
                                       [characters |-> successfulCharacters,
                                        worldInfo |-> extraction.worldInfo])
                    /\ apc' = "done"
                    /\ UNCHANGED <<errorVars, inflight>>

Next ==
    \/ AnalyzeBook
    \/ SummarizeReply
    \/ ResummarizeReply
    \/ ExtractReply
    \/ ExtractContReply
    \/ \E i \in DOMAIN tasks : DetailReply(i)
    \/ \E i \in DOMAIN tasks : DetailContinuation(i)
    \/ \E w \in DOMAIN workers : WorkerResume(w)
    \/ Assemble

Spec == Init /\ [][Next]_vars

\* ------------------------------------------------------------------------
\* The budget and the Reduction Engine for every context length, up to the
\* Extraction request
\* ------------------------------------------------------------------------
ContextLengths == 1..(ContextLength + 3)

InitBudget == InitWith(ContextLengths)

NextBudget ==
    \/ AnalyzeBook
    \/ SummarizeReply
    \/ ResummarizeReply

SpecBudget == InitBudget /\ [][NextBudget]_vars

\* ------------------------------------------------------------------------
\* Runs in which every book is within the budget, no reply is truncated and
\* no call fails
\* ------------------------------------------------------------------------
RoomyContextLengths ==
    { c \in ContextLengths :
        \A b \in Books : Len(b) <= maxCharsForInput(c) }

CleanExtractionReplies ==
    { reply \in ExtractionReplies :
        /\ reply.kind = "content"
        /\ reply.finishReason = "stop"
        /\ ExtractionValid(reply.parsed) }

CleanDetailReplies(i, r) ==
    { reply \in DetailReplies(i, r) :
        reply.kind = "content" /\ reply.finishReason = "stop" /\ reply.parses }

InitClean == InitWith(RoomyContextLengths)

NextClean ==
    \/ AnalyzeBook
    \/ ExtractReplyFrom(CleanExtractionReplies)
    \/ \E i \in DOMAIN tasks : DetailReplyFrom(i, CleanDetailReplies(i, tasks[i].retry))
    \/ \E w \in DOMAIN workers : WorkerResume(w)
    \/ Assemble

SpecClean == InitClean /\ [][NextClean]_vars

\* ------------------------------------------------------------------------
\* Runs in which the Extraction reply carries any worldInfo: none, null or a
\* filled one. Books are within the budget and
\* Phase 1 fails by timeouts only.
\* ------------------------------------------------------------------------
WorldInfos == {UNFILLED, NULL, FilledWorldInfo}

WorldReplies(replies) ==
    { reply \in replies :
        \/ reply.kind = "error" /\ reply.err = "timeout"
        \/ reply.kind = "content" /\ ExtractionValid(reply.parsed) }

NextWorld ==
    \/ AnalyzeBook
    \/ ExtractReplyFrom(WorldReplies(
            [kind : {"content"}, err : {"none"}, finishReason : {"stop", "length"},
             parsed : ParseResultsWith(WorldInfos)] \cup ExtractionReplies))
    \/ ExtractContReplyFrom(WorldReplies(
            [kind : {"content"}, err : {"none"},
             parsed : ParseResultsWith(WorldInfos)] \cup ExtractionContinuations))
    \/ \E i \in DOMAIN tasks : DetailReply(i)
    \/ \E i \in DOMAIN tasks : DetailContinuation(i)
    \/ \E w \in DOMAIN workers : WorkerResume(w)
    \/ Assemble

SpecWorld == InitWith({ContextLength + 3}) /\ [][NextWorld]_vars

\* ------------------------------------------------------------------------
\* Fair runs: while a reply is awaited or a continuation is ready (a reply's,
\* a worker's, analyzeBook's behind the pool), one of them arrives or is
\* resumed: no LLM call stays unanswered forever and the event loop does not
\* stop.  Rosters have at most MaxItems entries.
\* ------------------------------------------------------------------------
MaxItems == 2

ShortRosters(replies) ==
    { reply \in replies : Len(reply.parsed.characters) <= MaxItems }

NextFair ==
    \/ AnalyzeBook
    \/ SummarizeReply
    \/ ResummarizeReply
    \/ ExtractReplyFrom(ShortRosters(ExtractionReplies))
    \/ ExtractContReplyFrom(ShortRosters(ExtractionContinuations))
    \/ \E i \in DOMAIN tasks : DetailReply(i)
    \/ \E i \in DOMAIN tasks : DetailContinuation(i)
    \/ \E w \in DOMAIN workers : WorkerResume(w)
    \/ Assemble

SpecFair == Init /\ [][NextFair]_vars /\ WF_vars(NextFair)

\* ------------------------------------------------------------------------
\* Runs in which the only failures are timeouts: every reply that arrives
\* is complete or completed by its continuations
\* ------------------------------------------------------------------------
IsTimeout(reply) == reply.kind = "error" /\ reply.err = "timeout"

NextTimeouts ==
    \/ AnalyzeBook
    \/ SummarizeReplyFrom({ reply \in SummarizeReplies : reply.ok \/ reply.err = "timeout" })
    \/ ResummarizeReplyFrom({ reply \in SummarizeReplies : reply.ok \/ reply.err = "timeout" })
    \/ ExtractReplyFrom({ reply \in ExtractionReplies :
            IsTimeout(reply) \/ (reply.kind = "content" /\ ExtractionValid(reply.parsed)) })
    \/ ExtractContReplyFrom({ reply \in ExtractionContinuations :
            IsTimeout(reply) \/ (reply.kind = "content" /\ ExtractionValid(reply.parsed)) })
    \/ \E i \in DOMAIN tasks :
            DetailReplyFrom(i, { reply \in DetailReplies(i, tasks[i].retry) :
                IsTimeout(reply) \/ (reply.kind = "content" /\ reply.parses) })
    \/ \E i \in DOMAIN tasks :
            DetailContinuationFrom(i, { reply \in ContinuationReplies(i, tasks[i].retry) :
                IsTimeout(reply) \/ (reply.kind = "content" /\ reply.parses) })
    \/ \E w \in DOMAIN workers : WorkerResume(w)
    \/ Assemble

SpecTimeouts == Init /\ [][NextTimeouts]_vars

\* ------------------------------------------------------------------------
\* The Chunker on its own: chunkAndSummarize's call of chunkText or
\* chunkByChapters, for every short text over a letter, the space and the
\* newline, and for every list of up to MaxChapters chapters
\* ------------------------------------------------------------------------
Texts == UNION { [1..n -> {"a", " ", NL}] : n \in 0..MaxText }

\* Chapter k is written in a letter of its own, its title included.
Letter(k) == <<"a", "b", "c", "d", "e", "f", "g", "h">>[k]

\* A chapter next to a budget of charsPerChunk characters: short, short
\* with a title, one paragraph too long, two paragraphs that are too long
\* together, a paragraph that is too long with its title.
ChapterOf(kind, k, charsPerChunk) ==
    LET half == (charsPerChunk \div 2) + 1
    IN [title |-> IF kind \in {"titled", "titledLong"} THEN <<Letter(k)>> ELSE <<>>,
        text  |-> CASE kind \in {"short", "titled"} -> Str(2, Letter(k))
                    [] kind = "long"  -> Str(charsPerChunk + 1, Letter(k))
                    [] kind = "split" -> Str(half, Letter(k)) \o <<NL, NL>>
                                            \o Str(half, Letter(k))
                    [] OTHER -> Str(charsPerChunk - 10, Letter(k))]

\* the context length at which a chapter with a title fits into a chunk
ChapterContextLength == ContextLength + 4

ChapterLists ==
    LET budget == chunkTokenSize(safeContextSize(ChapterContextLength)) * CHARS_PER_TOKEN
        ChapterKinds == {"short", "titled", "long", "split", "titledLong"}
    IN { [k \in DOMAIN kinds |-> ChapterOf(kinds[k], k, budget)] :
           kinds \in UNION { [1..n -> ChapterKinds] : n \in 0..MaxChapters } }

InitChunker ==
    /\ apiKey = TRUE
    /\ bookText = <<>>
    /\ chapters = <<>>
    /\ NotStarted
    /\ \/ /\ contextLength \in 1..ContextLength
          /\ \E t \in Texts :
                call = [fn |-> "chunkText", text |-> t, chapters |-> <<>>,
                        returned |-> FALSE, result |-> <<>>]
       \/ /\ contextLength = ChapterContextLength
          /\ \E cs \in ChapterLists :
                call = [fn |-> "chunkByChapters", text |-> <<>>, chapters |-> cs,
                        returned |-> FALSE, result |-> <<>>]

\* analyzeBook's arguments and locals
runVars == <<apiKey, bookText, contextLength, chapters, apc, errorVars, reductionVars,
             textToAnalyze, extractionVars, calls, inflight, poolVars, analysis>>

Return(result) ==
    /\ ~call.returned
    /\ call' = [call EXCEPT !.returned = TRUE, !.result = result]
    /\ UNCHANGED <<runVars, progressStore, polled>>

CallChunkText ==
    /\ call.fn = "chunkText"
    /\ Return(chunkText(call.text, chunkTokenSize(safeContextSize(contextLength))))

CallChunkByChapters ==
    /\ call.fn = "chunkByChapters"
    /\ Return(chunkByChapters(call.chapters,
                              chunkTokenSize(safeContextSize(contextLength))))

NextChunker ==
    \/ CallChunkText
    \/ CallChunkByChapters

SpecChunker == InitChunker /\ [][NextChunker]_vars

\* ------------------------------------------------------------------------
\* JSON.parse, on texts as sequences of characters
\* ------------------------------------------------------------------------
\* a SyntaxError
SyntaxError == [ok |-> FALSE, v |-> UNFILLED, i |-> 0]

Parsed(value, next) == [ok |-> TRUE, v |-> value, i |-> next]

Digits == {"0", "1", "2", "3", "4", "5", "6", "7", "8", "9"}

Literals ==
    { [word |-> <<"t", "r", "u", "e">>, v |-> JBoolean(TRUE)],
      [word |-> <<"f", "a", "l", "s", "e">>, v |-> JBoolean(FALSE)],
      [word |-> <<"n", "u", "l", "l">>, v |-> NULL] }

\* what a backslash and the character after it stand for in a string
Escaped(c) ==
    CASE c = "n" -> <<NL>>
      [] c \in {"\"", "\\", "/"} -> <<c>>
      [] OTHER -> <<>>

RECURSIVE SkipSpace(_, _)
SkipSpace(t, i) ==
    IF i <= Len(t) /\ IsSpace(t[i]) THEN SkipSpace(t, i + 1) ELSE i

\* the characters of a string up to its closing quote, from position i on
RECURSIVE ParseString(_, _, _)
ParseString(t, i, acc) ==
    IF i > Len(t) THEN SyntaxError
    ELSE IF t[i] = "\"" THEN Parsed(JString(acc), i + 1)
    ELSE IF t[i] = "\\"
         THEN IF i + 1 <= Len(t) /\ Escaped(t[i + 1]) # <<>>
              THEN ParseString(t, i + 2, acc \o Escaped(t[i + 1]))
              ELSE SyntaxError
    ELSE IF t[i] = NL THEN SyntaxError
    ELSE ParseString(t, i + 1, Append(acc, t[i]))

RECURSIVE ParseNumber(_, _, _)
ParseNumber(t, i, acc) ==
    IF i <= Len(t) /\ t[i] \in Digits
    THEN ParseNumber(t, i + 1, Append(acc, t[i]))
    ELSE IF Len(acc) > 1 /\ acc[1] = "0" THEN SyntaxError ELSE Parsed(JNumber(acc), i)

\* a property assigned twice keeps its place and takes the later value
SetMember(members, k, v) ==
    IF \E x \in DOMAIN members : members[x].k = k
    THEN [x \in DOMAIN members |->
            IF members[x].k = k THEN [k |-> k, v |-> v] ELSE members[x]]
    ELSE Append(members, [k |-> k, v |-> v])

RECURSIVE ParseValue(_, _)
RECURSIVE ParseMembers(_, _, _)
RECURSIVE ParseItems(_, _, _)

ParseValue(t, i) ==
    LET j == SkipSpace(t, i)
    IN IF j > Len(t) THEN SyntaxError
       ELSE IF t[j] = "{"
            THEN LET k == SkipSpace(t, j + 1)
                 IN IF k <= Len(t) /\ t[k] = "}"
                    THEN Parsed(JObject(<<>>), k + 1)
                    ELSE ParseMembers(t, k, <<>>)
       ELSE IF t[j] = "["
            THEN LET k == SkipSpace(t, j + 1)
                 IN IF k <= Len(t) /\ t[k] = "]"
                    THEN Parsed(JArray(<<>>), k + 1)
                    ELSE ParseItems(t, k, <<>>)
       ELSE IF t[j] = "\"" THEN ParseString(t, j + 1, <<>>)
       ELSE IF t[j] \in Digits THEN ParseNumber(t, j, <<>>)
       ELSE LET At(l) == /\ j + Len(l.word) - 1 <= Len(t)
                         /\ SubSeq(t, j, j + Len(l.word) - 1) = l.word
            IN IF \E l \in Literals : At(l)
               THEN LET l == CHOOSE l \in Literals : At(l)
                    IN Parsed(l.v, j + Len(l.word))
               ELSE SyntaxError

\* the members of an object from position i on, up to its closing brace
ParseMembers(t, i, acc) ==
    LET j == SkipSpace(t, i)
    IN IF j > Len(t) \/ t[j] # "\"" THEN SyntaxError
       ELSE LET key == ParseString(t, j + 1, <<>>)
                c == SkipSpace(t, key.i)
            IN IF ~key.ok \/ c > Len(t) \/ t[c] # ":" THEN SyntaxError
               ELSE LET val == ParseValue(t, c + 1)
                        e == SkipSpace(t, val.i)
                    IN IF ~val.ok \/ e > Len(t) THEN SyntaxError
                       ELSE IF t[e] = ","
                            THEN ParseMembers(t, e + 1, SetMember(acc, key.v.s, val.v))
                       ELSE IF t[e] = "}"
                            THEN Parsed(JObject(SetMember(acc, key.v.s, val.v)), e + 1)
                       ELSE SyntaxError

\* the items of an array from position i on, up to its closing bracket
ParseItems(t, i, acc) ==
    LET val == ParseValue(t, i)
        e == SkipSpace(t, val.i)
    IN IF ~val.ok \/ e > Len(t) THEN SyntaxError
       ELSE IF t[e] = "," THEN ParseItems(t, e + 1, Append(acc, val.v))
       ELSE IF t[e] = "]" THEN Parsed(JArray(Append(acc, val.v)), e + 1)
       ELSE SyntaxError

\* JSON.parse(text): [ok, v], ok = FALSE when it throws
JSONparse(t) ==
    LET r == ParseValue(t, 1)
    IN IF r.ok /\ SkipSpace(t, r.i) > Len(t)
       THEN [ok |-> TRUE, v |-> r.v]
       ELSE [ok |-> FALSE, v |-> UNFILLED]

\* ------------------------------------------------------------------------
\* repairTruncatedJSON and parseAIResponse
\* ------------------------------------------------------------------------
\* json.replace(/,\s*$/, ''): a comma followed by nothing but white space
RemoveTrailingComma(t) ==
    LET u == TrimEnd(t)
    IN IF u # <<>> /\ u[Len(u)] = "," THEN SubSeq(u, 1, Len(u) - 1) ELSE t

\* The first scan: is the end of the text inside a string, and how many
\* characters lastGoodPos + 1 keeps.
RECURSIVE StringScan(_, _, _, _)
StringScan(t, i, inString, keep) ==
    IF i > Len(t) THEN [inString |-> inString, keep |-> keep]
    ELSE IF t[i] = "\\" /\ inString THEN StringScan(t, i + 2, inString, keep)
    ELSE LET now == IF t[i] = "\"" THEN ~inString ELSE inString
         IN StringScan(t, i + 1, now,
                IF ~now /\ t[i] \in {"}", "]", "\""} THEN i ELSE keep)

\* The second scan: the stack of the brackets left open outside strings.
RECURSIVE BracketScan(_, _, _, _)
BracketScan(t, i, inString, stack) ==
    IF i > Len(t) THEN stack
    ELSE IF t[i] = "\\" /\ inString THEN BracketScan(t, i + 2, inString, stack)
    ELSE IF t[i] = "\"" THEN BracketScan(t, i + 1, ~inString, stack)
    ELSE IF inString THEN BracketScan(t, i + 1, inString, stack)
    ELSE IF t[i] \in {"{", "["} THEN BracketScan(t, i + 1, inString, Append(stack, t[i]))
    ELSE IF t[i] \in {"}", "]"} /\ stack # <<>>
         THEN BracketScan(t, i + 1, inString, SubSeq(stack, 1, Len(stack) - 1))
    ELSE BracketScan(t, i + 1, inString, stack)

Closer(open) == IF open = "{" THEN "}" ELSE "]"

\* as if the scopes were closed in the order they were opened
ClosersInOpeningOrder(stack) == [k \in DOMAIN stack |-> Closer(stack[k])]

\* while (stack.length > 0) suffix += closer of stack.pop()
Closers(stack) == [k \in DOMAIN stack |-> Closer(stack[Len(stack) + 1 - k])]

\* [null, text]: null = TRUE when it returns null
repairTruncatedJSON(json) ==
    LET first == RemoveTrailingComma(json)
        scan == StringScan(first, 1, FALSE, 1)
        cut == IF scan.inString THEN SubSeq(first, 1, Min(scan.keep, Len(first))) ELSE first
        trimmed == RemoveTrailingComma(cut)
        suffix == Closers(BracketScan(trimmed, 1, FALSE, <<>>))
    IN IF suffix # <<>>
       THEN [null |-> FALSE, text |-> trimmed \o suffix]
       ELSE [null |-> TRUE, text |-> <<>>]

\* the grave accent (U+0060), a character no TLA+ string can hold
Grave == "grave"

\* The two replace calls on cleaned: an opening fence with json after it,
\* in either case, goes with the white space that follows; a closing fence
\* at the very end goes with the white space before it.
StripFences(t) ==
    LET Fence == <<Grave, Grave, Grave>>
        LowerCase(c) == CASE c = "J" -> "j" [] c = "S" -> "s" [] c = "O" -> "o"
                          [] c = "N" -> "n" [] OTHER -> c
        opening == Fence \o <<"j", "s", "o", "n">>
        head == IF Len(t) >= Len(opening)
                   /\ [k \in 1..Len(opening) |-> LowerCase(t[k])] = opening
                THEN TrimStart(SubSeq(t, Len(opening) + 1, Len(t)))
                ELSE t
    IN IF Len(head) >= 3 /\ SubSeq(head, Len(head) - 2, Len(head)) = Fence
       THEN TrimEnd(SubSeq(head, 1, Len(head) - 3))
       ELSE head

\* the text from its first { to its last }, when there is one after the other
ExtractObject(t) ==
    LET opens == { i \in DOMAIN t : t[i] = "{" }
        closes == { i \in DOMAIN t : t[i] = "}" }
    IN IF opens # {} /\ closes # {}
       THEN LET first == CHOOSE i \in opens : \A j \in opens : i <= j
                last == CHOOSE i \in closes : \A j \in closes : i >= j
            IN IF last > first THEN SubSeq(t, first, last) ELSE t
       ELSE t

\* what parseAIResponse parses after a failed direct parse
Cleaned(content) == ExtractObject(StripFences(Trim(content)))

\* as if the cleaned text were parsed before the reply itself
CleanedFirst(direct, second, third) ==
    IF second.ok THEN "cleaned"
    ELSE IF direct.ok THEN "direct"
    ELSE IF third.ok THEN "repaired" ELSE "throw"

\* which of the three JSON.parse calls returns, in the order of the code
FirstSuccess(direct, second, third) ==
    IF direct.ok THEN "direct"
    ELSE IF second.ok THEN "cleaned"
    ELSE IF third.ok THEN "repaired" ELSE "throw"

\* [ok, value, via]: ok = FALSE when it throws, via the return statement
parseAIResponse(content) ==
    LET direct == JSONparse(content)
        second == JSONparse(Cleaned(content))
        repaired == repairTruncatedJSON(Cleaned(content))
        third == IF repaired.null THEN [ok |-> FALSE, v |-> UNFILLED]
                 ELSE JSONparse(repaired.text)
        via == FirstSuccess(direct, second, third)
    IN [ok |-> via # "throw",
        via |-> via,
        value |-> CASE via = "direct" -> direct.v
                    [] via = "cleaned" -> second.v
                    [] via = "repaired" -> third.v
                    [] OTHER -> UNFILLED]

\* ------------------------------------------------------------------------
\* parseAIResponse and repairTruncatedJSON on their own: every prefix of
\* some replies, whole or cut short by the token limit
\* ------------------------------------------------------------------------
\* replies that are JSON and nothing else
JsonReplies ==
    {
      \* {"a":"b","c":"d"}
      <<"{", "\"", "a", "\"", ":", "\"", "b", "\"", ",", "\"", "c", "\"",
        ":", "\"", "d", "\"", "}">>,
      \* {"a":{"c":"\"}"},"b":["x]","y,"]}
      <<"{", "\"", "a", "\"", ":", "{", "\"", "c", "\"", ":", "\"", "\\",
        "\"", "}", "\"", "}", ",", "\"", "b", "\"", ":", "[", "\"", "x", "]",
        "\"", ",", "\"", "y", ",", "\"", "]", "}">>,
      \* {"a":{"b":1},"c":"d"}
      <<"{", "\"", "a", "\"", ":", "{", "\"", "b", "\"", ":", "1", "}", ",",
        "\"", "c", "\"", ":", "\"", "d", "\"", "}">>,
      \* {"a":1, "b":[true,null] }
      <<"{", "\"", "a", "\"", ":", "1", ",", " ", "\"", "b", "\"", ":", "[",
        "t", "r", "u", "e", ",", "n", "u", "l", "l", "]", " ", "}">>,
      \* [{"a":1}]
      <<"[", "{", "\"", "a", "\"", ":", "1", "}", "]">>,
      \* "{}"
      <<"\"", "{", "}", "\"">> }

\* replies in a markdown fence or in prose
WrappedReplies ==
    {
      \* a fence with json, a newline, {"a":1}, a newline, a fence
      <<Grave, Grave, Grave, "j", "s", "o", "n", NL, "{", "\"", "a", "\"", ":",
        "1", "}", NL, Grave, Grave, Grave>>,
      \* ok {"a":1} a
      <<"o", "k", " ", "{", "\"", "a", "\"", ":", "1", "}", " ", "a">> }

Prefixes(S) == UNION { { SubSeq(t, 1, n) : n \in 0..Len(t) } : t \in S }

InitParser ==
    /\ apiKey = TRUE
    /\ bookText = <<>>
    /\ chapters = <<>>
    /\ contextLength = ContextLength
    /\ NotStarted
    /\ \E fn \in {"parseAIResponse", "repairTruncatedJSON"} :
          \E c \in Prefixes(IF fn = "parseAIResponse"
                             THEN JsonReplies \cup WrappedReplies
                             ELSE JsonReplies) :
             call = [fn |-> fn, content |-> c, returned |-> FALSE,
                     result |-> [ok |-> FALSE, via |-> "none", value |-> UNFILLED,
                                 null |-> TRUE, text |-> <<>>]]

CallParseAIResponse ==
    /\ call.fn = "parseAIResponse"
    /\ LET r == parseAIResponse(call.content)
       IN Return([call.result EXCEPT !.ok = r.ok, !.via = r.via, !.value = r.value])

CallRepairTruncatedJSON ==
    /\ call.fn = "repairTruncatedJSON"
    /\ LET r == repairTruncatedJSON(call.content)
       IN Return([call.result EXCEPT !.null = r.null, !.text = r.text])

NextParser ==
    \/ CallParseAIResponse
    \/ CallRepairTruncatedJSON

SpecParser == InitParser /\ [][NextParser]_vars

\* ------------------------------------------------------------------------
\* validateExtractionResult and validateCharacterDetail, field by field
\* ------------------------------------------------------------------------
\* Array.isArray(v)
IsArray(v) == v.kind = "array"

UnknownBook == <<"U", "n", "k", "n", "o", "w", "n", " ", "B", "o", "o", "k">>

\* as if a name were enough
HasName(c) == ~Falsy(c.name)

\* c => c.name && c.role
HasNameAndRole(c) == ~Falsy(c.name) /\ ~Falsy(c.role)

\* [threw, value]: value is the result object as the function left it
validateExtractionResult(result) ==
    LET titled == IF Falsy(result.bookTitle)
                  THEN [result EXCEPT !.bookTitle = JString(UnknownBook)]
                  ELSE result
    IN IF Falsy(titled.characters) \/ ~IsArray(titled.characters)
       THEN [threw |-> TRUE, value |-> titled]
       ELSE LET filtered ==
                    [titled EXCEPT !.characters =
                        JArray(SelectSeq(titled.characters.items, HasNameAndRole))]
            IN IF Len(filtered.characters.items) = 0
               THEN [threw |-> TRUE, value |-> filtered]
               ELSE [threw |-> FALSE,
                     value |-> IF Falsy(filtered.worldInfo)
                               THEN [filtered EXCEPT !.worldInfo = EmptyWorldInfo]
                               ELSE filtered]

\* detail.x || ''
OrEmptyString(v) == IF Falsy(v) THEN JString(<<>>) ELSE v

\* Array.isArray(detail.x) ? detail.x : []
ArrayOrEmpty(v) == IF IsArray(v) THEN v ELSE JArray(<<>>)

\* m => m && m.trim(): only a string has a trim method
TrimThrows(m) == ~Falsy(m) /\ m.kind # "string"

KeepsMessage(m) == ~Falsy(m) /\ Trim(m.s) # <<>>

\* detail.canBePersona ?? false
OrFalse(v) == IF v = NULL \/ v = UNFILLED THEN JBoolean(FALSE) ELSE v

\* [threw, value]: value is the detail object as the function left it
validateCharacterDetail(detail, expectedName) ==
    LET upto == [detail EXCEPT
                    !.name = IF Falsy(detail.name) THEN expectedName ELSE detail.name,
                    !.background = OrEmptyString(detail.background),
                    !.physicalDescription = OrEmptyString(detail.physicalDescription),
                    !.personality = OrEmptyString(detail.personality),
                    !.commonPhrases = ArrayOrEmpty(detail.commonPhrases),
                    !.scenario = OrEmptyString(detail.scenario)]
        messages == detail.firstMessages
    IN IF IsArray(messages) /\ \E k \in DOMAIN messages.items : TrimThrows(messages.items[k])
       THEN [threw |-> TRUE, value |-> upto]
       ELSE [threw |-> FALSE,
             value |-> [upto EXCEPT
                    !.firstMessages = IF IsArray(messages)
                                      THEN JArray(SelectSeq(messages.items, KeepsMessage))
                                      ELSE JArray(<<>>),
                    !.exampleDialogue = OrEmptyString(detail.exampleDialogue),
                    !.tags = ArrayOrEmpty(detail.tags),
                    !.canBePersona = OrFalse(detail.canBePersona)]]

\* ------------------------------------------------------------------------
\* The validators on their own, for every parsed reply made of the values
\* below
\* ------------------------------------------------------------------------
NameValues == {UNFILLED, JString(<<>>), JString(<<"N">>)}

\* A roster entry is an object with or without a name and a role; id tells
\* the entries of a roster apart.
Rosters ==
    LET Entries == [kind : {"object"}, id : 1..MaxEntries,
                    name : NameValues, role : NameValues]
    IN UNION { { r \in [1..n -> Entries] : \A k \in 1..n : r[k].id = k } :
                 n \in 0..MaxEntries }

ExtractionResults ==
    [bookTitle  : {UNFILLED, JString(<<>>), JString(<<"T">>)},
     characters : {UNFILLED, NULL, JString(<<"x">>)} \cup { JArray(r) : r \in Rosters },
     worldInfo  : {UNFILLED, NULL, [EmptyWorldInfo EXCEPT !.setting = JString(<<"s">>)]}]

Details ==
    LET TextValues == {UNFILLED, JString(<<"x">>)}
    IN
    [name : NameValues,
     role : {UNFILLED, JString(<<"v">>)},
     background : TextValues,
     physicalDescription : TextValues,
     personality : TextValues,
     commonPhrases : {UNFILLED, JString(<<"p">>), JArray(<<JString(<<"p">>)>>)},
     scenario : TextValues,
     firstMessages : {UNFILLED, JArray(<<>>), JArray(<<JString(<<"h">>)>>),
                      JArray(<<JString(<<"h">>), JString(<<" ">>), NULL>>),
                      JArray(<<JNumber(<<"1">>)>>)},
     exampleDialogue : TextValues,
     tags : {UNFILLED, JArray(<<JString(<<"t">>)>>)},
     canBePersona : {UNFILLED, NULL, JBoolean(TRUE), JBoolean(FALSE)}]

\* the name of the roster entry the profile was asked for
ExpectedName == JString(<<"R">>)

\* the role of that roster entry (characterSummary.role)
ExpectedRole == JString(<<"m">>)

InitValidator ==
    /\ apiKey = TRUE
    /\ bookText = <<>>
    /\ chapters = <<>>
    /\ contextLength = ContextLength
    /\ NotStarted
    /\ \/ \E r \in ExtractionResults :
             call = [fn |-> "validateExtractionResult", arg |-> r, returned |-> FALSE,
                     result |-> [threw |-> FALSE, value |-> r]]
       \/ \E d \in Details :
             call = [fn |-> "validateCharacterDetail", arg |-> d, returned |-> FALSE,
                     result |-> [threw |-> FALSE, value |-> d]]

CallValidateExtractionResult ==
    /\ call.fn = "validateExtractionResult"
    /\ Return(validateExtractionResult(call.arg))

CallValidateCharacterDetail ==
    /\ call.fn = "validateCharacterDetail"
    /\ Return(validateCharacterDetail(call.arg, ExpectedName))

NextValidator ==
    \/ CallValidateExtractionResult
    \/ CallValidateCharacterDetail

SpecValidator == InitValidator /\ [][NextValidator]_vars

\* ------------------------------------------------------------------------
\* cardGenerator.js: generateCharacterCards, the order of the cards and the
\* persona cards.  A character is its position in the argument, its role
\* and its canBePersona flag; a card is the character it is made for and
\* whether it is the persona card.
\* ------------------------------------------------------------------------
roleOrder ==
    [main_character |-> 0, protagonist |-> 1, love_interest |-> 2, antagonist |-> 3,
     supporting |-> 4, mentor |-> 5, rival |-> 6]

\* roleOrder[a.role] || 99: undefined and 0 are falsy
OrderOf(role) ==
    IF role \in DOMAIN roleOrder /\ roleOrder[role] # 0 THEN roleOrder[role] ELSE 99

\* [...characters].sort((a, b) => order(a) - order(b)): the sort is stable
RECURSIVE SortByRole(_)
SortByRole(characters) ==
    IF characters = <<>> THEN <<>>
    ELSE LET sorted == SortByRole(SubSeq(characters, 1, Len(characters) - 1))
             last == characters[Len(characters)]
             keep == { k \in DOMAIN sorted :
                         OrderOf(sorted[k].role) - OrderOf(last.role) <= 0 }
         IN SubSeq(sorted, 1, Cardinality(keep)) \o <<last>>
            \o SubSeq(sorted, Cardinality(keep) + 1, Len(sorted))

\* sortedCharacters.forEach((char, index) => ...): the regular card, then
\* the persona card when char.canBePersona && index < 2 (index from 0)
RECURSIVE CardsFrom(_, _)
CardsFrom(sorted, k) ==
    IF k > Len(sorted) THEN <<>>
    ELSE <<[char |-> sorted[k], isPersona |-> FALSE]>>
         \o (IF sorted[k].canBePersona /\ k - 1 < 2
             THEN <<[char |-> sorted[k], isPersona |-> TRUE]>> ELSE <<>>)
         \o CardsFrom(sorted, k + 1)

generateCharacterCards(characters) == CardsFrom(SortByRole(characters), 1)

\* every list of up to MaxCharacters characters, each with one of the
\* seven roles or a role the table does not have
CharacterLists ==
    LET Roles == DOMAIN roleOrder \cup {"narrator"}
    IN UNION { { cs \in [1..n -> [id : 1..n, role : Roles, canBePersona : BOOLEAN]] :
                   \A k \in 1..n : cs[k].id = k } : n \in 0..MaxCharacters }

InitCards ==
    /\ apiKey = TRUE
    /\ bookText = <<>>
    /\ chapters = <<>>
    /\ contextLength = ContextLength
    /\ NotStarted
    /\ \E cs \in CharacterLists :
          call = [fn |-> "generateCharacterCards", characters |-> cs,
                  returned |-> FALSE, result |-> <<>>]

CallGenerateCharacterCards ==
    /\ call.fn = "generateCharacterCards"
    /\ Return(generateCharacterCards(call.characters))

SpecCards == InitCards /\ [][CallGenerateCharacterCards]_vars

\* ------------------------------------------------------------------------
\* analyzeBook's calcMaxResponseTokens on its own, for the Extraction prompt
\* of a text within the input budget of the context window.  A prompt is
\* its length; maxCompletionTokens is 0 when it is null.
\* ------------------------------------------------------------------------
\* buildExtractionPrompt(text).length
buildExtractionPrompt(textLen) == ExtractionScaffold + textLen

calcMaxResponseTokens(promptLen, maxCompletionTokens) ==
    LET inputTokenEstimate == (promptLen + CHARS_PER_TOKEN - 1) \div CHARS_PER_TOKEN
        tokens == Max(MAX_RESPONSE_TOKENS, contextLength - inputTokenEstimate)
    IN IF maxCompletionTokens # 0 THEN Min(tokens, maxCompletionTokens) ELSE tokens

InitTokens ==
    /\ apiKey = TRUE
    /\ bookText = <<>>
    /\ chapters = <<>>
    /\ NotStarted
    /\ contextLength \in { (MAX_RESPONSE_TOKENS \div 2) * k : k \in 1..MaxWindows }
                         \cup {DEFAULT_CONTEXT_LENGTH}
    /\ \E q \in 0..MaxWindows,
          limit \in {0, MAX_RESPONSE_TOKENS \div 2, 2 * MAX_RESPONSE_TOKENS} :
          call = [fn |-> "calcMaxResponseTokens",
                  textLen |-> (maxCharsForInput(contextLength) * q) \div MaxWindows,
                  maxCompletionTokens |-> limit,
                  returned |-> FALSE, result |-> 0]

CallCalcMaxResponseTokens ==
    /\ call.fn = "calcMaxResponseTokens"
    /\ Return(calcMaxResponseTokens(buildExtractionPrompt(call.textLen),
                                    call.maxCompletionTokens))

SpecTokens == InitTokens /\ [][CallCalcMaxResponseTokens]_vars

\* ------------------------------------------------------------------------
\* progressTracker.js and the POST /file handler of routes/process.js.
\* Time advances in steps of CLEANUP_INTERVAL_MS.  An entry of the store is
\* kept with its age, Date.now() - entry.createdAt, which stops growing once
\* it is over TTL_MS: the code compares the age with TTL_MS only.
\* ------------------------------------------------------------------------
\* progressStore.delete(sessionId)
clearProgress(store, sessionId) ==
    [s \in DOMAIN store \ {sessionId} |-> store[s]]

\* as if an entry expired after one cleanup interval
ExpiredAfterInterval(age) == age >= CLEANUP_INTERVAL_MS

\* (now - entry.createdAt) > TTL_MS
Expired(age) == age > TTL_MS

\* the clock advances by CLEANUP_INTERVAL_MS
Tick ==
    /\ \E s \in DOMAIN progressStore : ~Expired(progressStore[s].age)
    /\ progressStore' = [s \in DOMAIN progressStore |->
                            IF Expired(progressStore[s].age) THEN progressStore[s]
                            ELSE [progressStore[s] EXCEPT !.age = @ + CLEANUP_INTERVAL_MS]]
    /\ UNCHANGED <<call, polled, runVars>>

\* the setInterval callback
CleanupExpiredProgress ==
    /\ progressStore' = [s \in { x \in DOMAIN progressStore :
                                   ~Expired(progressStore[x].age) } |-> progressStore[s]]
    /\ UNCHANGED <<call, polled, runVars>>

\* GET /progress/:sessionId: getProgress(sessionId)
GetProgress ==
    /\ IF SessionId \notin DOMAIN progressStore
       THEN polled' = NULL /\ UNCHANGED progressStore
       ELSE IF Expired(progressStore[SessionId].age)
       THEN /\ progressStore' = clearProgress(progressStore, SessionId)
            /\ polled' = NULL
       ELSE /\ polled' = [kind |-> "progress",
                          message |-> progressStore[SessionId].message,
                          age |-> progressStore[SessionId].age]
            /\ UNCHANGED progressStore
    /\ UNCHANGED <<call, runVars>>

\* The handler is at pc: received, rejecting (awaiting cleanupRequestUploads
\* before a 400), parsing, cover, analyzing, cleaning (awaiting cleanupFiles),
\* failing (awaiting cleanupRequestUploads in the catch), responded.
HandlerStep(pc, status, store) ==
    /\ call' = [call EXCEPT !.pc = pc, !.status = status]
    /\ progressStore' = store
    /\ UNCHANGED <<polled, runVars>>

\* the request arrives: up to the first await
PostFile ==
    /\ call.fn = "postFile" /\ call.pc = "received"
    /\ LET started == updateProgress(progressStore, SessionId, "Starting file processing...")
       IN IF ~call.file \/ ~call.apiKey \/ ~call.extension
          THEN HandlerStep("rejecting", 0, started)
          ELSE HandlerStep("parsing", 0,
                           updateProgress(started, SessionId, "Parsing EPUB file..."))

\* return res.status(400).json(...)
Rejected ==
    /\ call.fn = "postFile" /\ call.pc = "rejecting"
    /\ HandlerStep("responded", 400, progressStore)

\* parseEpub returned or threw
EpubParsed ==
    /\ call.fn = "postFile" /\ call.pc = "parsing"
    /\ \E ok \in BOOLEAN :
          IF ~ok THEN HandlerStep("failing", 0, progressStore)
          ELSE IF call.cover
          THEN HandlerStep("cover", 0,
                   updateProgress(progressStore, SessionId, "Processing cover image..."))
          ELSE HandlerStep("analyzing", 0,
                   updateProgress(progressStore, SessionId, "Analyzing book with AI..."))

\* extractEpubCover or fs.readFile returned or threw
CoverRead ==
    /\ call.fn = "postFile" /\ call.pc = "cover"
    /\ \E ok \in BOOLEAN :
          IF ~ok THEN HandlerStep("failing", 0, progressStore)
          ELSE HandlerStep("analyzing", 0,
                   updateProgress(progressStore, SessionId, "Analyzing book with AI..."))

\* analyzeBook reports a milestone to the sink it was given
AnalysisProgress ==
    /\ call.fn = "postFile" /\ call.pc = "analyzing"
    /\ HandlerStep("analyzing", 0, updateProgress(progressStore, SessionId, "milestone"))

\* analyzeBook returned, with or without characters, or threw
Analyzed ==
    /\ call.fn = "postFile" /\ call.pc = "analyzing"
    /\ \E outcome \in {"threw", "no characters", "characters"} :
          IF outcome = "threw" THEN HandlerStep("failing", 0, progressStore)
          ELSE LET generating == updateProgress(progressStore, SessionId,
                                     "Generating character cards and lorebook...")
               IN IF outcome = "no characters"
                  THEN HandlerStep("failing", 0, generating)
                  ELSE HandlerStep("cleaning", 0, generating)

\* cleanupFiles returned: clearProgress and res.json(...)
FilesCleaned ==
    /\ call.fn = "postFile" /\ call.pc = "cleaning"
    /\ HandlerStep("responded", 200,
           clearProgress(updateProgress(progressStore, SessionId,
                                        "Complete! Sending results..."), SessionId))

\* the catch: clearProgress and res.status(500)
Failed ==
    /\ call.fn = "postFile" /\ call.pc = "failing"
    /\ HandlerStep("responded", 500, clearProgress(progressStore, SessionId))

InitProgress ==
    /\ apiKey = TRUE
    /\ bookText = <<>>
    /\ chapters = <<>>
    /\ contextLength = ContextLength
    /\ NotStarted
    /\ \E file, key, extension, cover \in BOOLEAN :
          call = [fn |-> "postFile", pc |-> "received", status |-> 0, file |-> file,
                  apiKey |-> key, extension |-> extension, cover |-> cover]

NextProgress ==
    \/ Tick
    \/ CleanupExpiredProgress
    \/ GetProgress
    \/ PostFile
    \/ Rejected
    \/ EpubParsed
    \/ CoverRead
    \/ AnalysisProgress
    \/ Analyzed
    \/ FilesCleaned
    \/ Failed

\* the clock advances and the interval timer fires as long as the server runs
SpecProgress ==
    InitProgress /\ [][NextProgress]_vars
    /\ WF_vars(Tick) /\ WF_vars(CleanupExpiredProgress)

\* ------------------------------------------------------------------------
\* runWithConcurrency on its own: n tasks fetchCharacterDetail, any pool
\* size, the replies to an item following the item's script whatever the
\* other items do
\* ------------------------------------------------------------------------
MaxTasks == 3

\* ok: the first reply is complete.  retry: the first request times out, the
\* second reply is truncated and its continuation completes it.  fail: no
\* reply ever parses.
Scripts == {"ok", "retry", "fail"}

\* the reply script s gives to the request that call t of item i awaits
ScriptReply(s, i, t) ==
    LET piece == [item |-> i, retry |-> t.retry]
    IN IF t.st = "cont"
       THEN [kind |-> "content", piece |-> piece, parses |-> TRUE]
       ELSE IF s = "retry" /\ t.retry = 0
       THEN [kind |-> "error", err |-> "timeout"]
       ELSE [kind |-> "content",
             finishReason |-> IF s = "retry" THEN "length" ELSE "stop",
             piece |-> piece, parses |-> s = "ok"]

InitPool ==
    /\ apiKey = TRUE
    /\ bookText = <<>>
    /\ chapters = <<>>
    /\ contextLength = ContextLength
    /\ progressStore = <<>>
    /\ polled = UNFILLED
    /\ apc = "start"
    /\ error = NoError
    /\ errorCites = {}
    /\ chunks = <<>>
    /\ summaries = <<>>
    /\ combined = 0
    /\ reduceAttempt = 0
    /\ textToAnalyze = 0
    /\ exContent = 0
    /\ exParsed = Unparsed
    /\ exAttempt = 0
    /\ exFinishReason = "none"
    /\ extraction = NULL
    /\ calls = [summarize |-> 0, extract |-> 0, extractCont |-> 0]
    /\ inflight = {}
    /\ analysis = NULL
    /\ reduced = NotReduced
    /\ finishSeq = <<>>
    /\ \E n \in 1..MaxTasks, concurrency \in 1..MaxTasks :
          \E oracle \in [1..n -> Scripts] :
             LET p == StartPool(n, concurrency)
             IN /\ call = [fn |-> "runWithConcurrency", n |-> n,
                           concurrency |-> concurrency, oracle |-> oracle]
                /\ tasks = p.tasks
                /\ results = p.results
                /\ nextIndex = p.nextIndex
                /\ workers = p.workers
                /\ launched = p.launched
                /\ detailReqs = p.detailReqs
                /\ written = [i \in 1..n |-> 0]

NextPool ==
    \/ \E i \in DOMAIN tasks :
          DetailReplyFrom(i, { reply \in DetailReplies(i, tasks[i].retry) :
                                 reply = ScriptReply(call.oracle[i], i, tasks[i]) })
    \/ \E i \in DOMAIN tasks :
          DetailContinuationFrom(i, { reply \in ContinuationReplies(i, tasks[i].retry) :
                                        reply = ScriptReply(call.oracle[i], i, tasks[i]) })
    \/ \E w \in DOMAIN workers : WorkerResume(w)

SpecPool == InitPool /\ [][NextPool]_vars

\* ------------------------------------------------------------------------
\* fetchCharacterDetail on its own, called for each of MaxCalls roster
\* entries with or without updateProgress and with or without a session id,
\* for any replies
\* ------------------------------------------------------------------------
MaxCalls == 2

InitSink ==
    /\ apiKey = TRUE
    /\ bookText = <<>>
    /\ chapters = <<>>
    /\ contextLength = ContextLength
    /\ progressStore = <<>>
    /\ polled = UNFILLED
    /\ apc = "start"
    /\ error = NoError
    /\ errorCites = {}
    /\ chunks = <<>>
    /\ summaries = <<>>
    /\ combined = 0
    /\ reduceAttempt = 0
    /\ textToAnalyze = 0
    /\ exContent = 0
    /\ exParsed = Unparsed
    /\ exAttempt = 0
    /\ exFinishReason = "none"
    /\ extraction = NULL
    /\ calls = [summarize |-> 0, extract |-> 0, extractCont |-> 0]
    /\ inflight = {}
    /\ analysis = NULL
    /\ reduced = NotReduced
    /\ finishSeq = <<>>
    /\ results = <<>>
    /\ nextIndex = 1
    /\ workers = <<>>
    /\ launched = [i \in 1..MaxCalls |-> 0]
    /\ detailReqs = [i \in 1..MaxCalls |-> 0]
    /\ written = [i \in 1..MaxCalls |-> 0]
    \* sessionId "" stands for a falsy session id (undefined, null, '')
    /\ \E u \in BOOLEAN, s \in {"", SessionId} :
          /\ call = [fn |-> "fetchCharacterDetail", updateProgress |-> u,
                     sessionId |-> s]
          /\ tasks = [i \in 1..MaxCalls |-> [PendingTask EXCEPT !.sink = u /\ s # ""]]

\* the call for roster entry i, up to `await requestAnalysis(...)` of the
\* first attempt
CallFetchCharacterDetail(i) ==
    /\ call.fn = "fetchCharacterDetail"
    /\ tasks[i].st = "pending"
    /\ TaskStep(i, NewAttempt(tasks[i], 0))

NextSink ==
    \/ \E i \in DOMAIN tasks : CallFetchCharacterDetail(i)
    \/ \E i \in DOMAIN tasks : DetailReply(i)
    \/ \E i \in DOMAIN tasks : DetailContinuation(i)

SpecSink == InitSink /\ [][NextSink]_vars

\* ------------------------------------------------------------------------
\* Properties
\* ------------------------------------------------------------------------
InFlightTasks == { i \in DOMAIN tasks : tasks[i].st \in {"request", "cont"} }

NullTasks == { i \in DOMAIN tasks : tasks[i].st = "fulfilled" /\ tasks[i].value = NULL }

ProfileTasks == { i \in DOMAIN tasks : tasks[i].st = "fulfilled" /\ tasks[i].value = Profile(i) }

\* task a settled before task b
SettledBefore(a, b) ==
    \E x, y \in DOMAIN finishSeq : x < y /\ finishSeq[x] = a /\ finishSeq[y] = b

\* C1: when analyzeBook returns, slot i of results holds what task i
\* returned, and characters lists exactly the successful profiles, in the
\* order of their roster entries, whatever the order of completion.
C1_RosterOrder ==
    apc = "done" =>
        LET cs == analysis.characters
        IN /\ \A i \in DOMAIN results : results[i] = tasks[i].value
           /\ \A k \in DOMAIN cs : cs[k].kind = "profile" /\ cs[k] = Profile(cs[k].item)
           /\ \A j, k \in DOMAIN cs : j < k => cs[j].item < cs[k].item
           /\ { cs[k].item : k \in DOMAIN cs } = ProfileTasks

\* a run that returned two profiles whose tasks completed in the reverse of
\* the roster order
C1_Overtaken ==
    /\ apc = "done"
    /\ \E a, b \in ProfileTasks : a < b /\ SettledBefore(b, a)

\* C2: the returned characters are exactly the non-null results of the
\* Detail tasks: no null or unfilled entry, at most one per roster entry,
\* and N-1 of them when exactly one of N tasks resolved to null.
C2_OnlySuccessful ==
    apc = "done" =>
        LET cs == analysis.characters
        IN /\ \A k \in DOMAIN cs : cs[k] # NULL /\ cs[k] # UNFILLED
           /\ Len(cs) <= Len(extraction.characters)
           /\ Len(cs) = Cardinality(ProfileTasks)
           /\ Len(cs) + Cardinality(NullTasks) = Len(tasks)
           /\ Cardinality(NullTasks) = 1 => Len(cs) = Len(tasks) - 1

\* a run of three roster entries that returned with exactly one of them
\* failed in every attempt
C2_OneDropped ==
    /\ apc = "done"
    /\ Len(tasks) = 3
    /\ Cardinality(NullTasks) = 1
    /\ \A i \in NullTasks : detailReqs[i] = MAX_CHARACTER_RETRIES + 1
    /\ Len(analysis.characters) = 2

\* C3: no call of fetchCharacterDetail throws: an item that resolved to null
\* has used all its attempts, no worker and no run fails on a task's error,
\* and when the run ends every task has completed and its result is stored.
C3_NoErrorEscapes ==
    /\ \A i \in DOMAIN tasks : tasks[i].st # "rejected"
    /\ \A w \in DOMAIN workers : workers[w].st # "rejected"
    /\ error.cause # "task_error"
    /\ \A i \in NullTasks : detailReqs[i] = MAX_CHARACTER_RETRIES + 1
    /\ (apc \in {"done", "failed"} /\ Len(tasks) > 0) =>
           \A i \in DOMAIN tasks : /\ tasks[i].st = "fulfilled"
                                   /\ results[i] = tasks[i].value

\* a run that returned although one item failed in every attempt, with a
\* sibling that completed after that failure and kept its profile
C3_SiblingSurvives ==
    /\ apc = "done"
    /\ \E i \in NullTasks, j \in ProfileTasks :
         SettledBefore(i, j) /\ results[j] = Profile(j) /\ results[i] = NULL

\* C4: analyzeBook never returns zero characters; when every Detail task
\* resolved to null the run fails.
C4_NeverEmptyResult ==
    /\ analysis # NULL => Len(analysis.characters) >= 1
    /\ apc = "done" => analysis # NULL
    /\ (apc \in {"done", "failed"} /\ Len(tasks) > 0 /\ NullTasks = DOMAIN tasks) =>
           /\ apc = "failed"
           /\ error = [phase |-> "detail", cause |-> "no_characters"]
           /\ analysis = NULL

\* a run of at least two roster entries that failed because every Detail
\* task resolved to null
C4_AllFailed ==
    /\ apc = "failed"
    /\ error.cause = "no_characters"
    /\ Len(tasks) >= 2
    /\ NullTasks = DOMAIN tasks

\* C5: a run whose Extraction Phase failed has failed and has issued no
\* Detail request, and Detail tasks exist only for a validated extraction
\* whose roster is not empty and has a name and a role in every entry.
C5_ExtractionFailureIsFatal ==
    /\ error.phase = "extraction" =>
           /\ apc = "failed"
           /\ extraction = NULL
           /\ Len(tasks) = 0
           /\ Len(detailReqs) = 0
    /\ Len(tasks) > 0 =>
           /\ extraction # NULL
           /\ Len(extraction.characters) = Len(tasks)
           /\ \A k \in DOMAIN extraction.characters :
                extraction.characters[k].name /\ extraction.characters[k].role
    /\ (extraction = NULL \/ apc \in {"start", "summarize", "resummarize",
                                      "extract", "extract_cont"}) =>
           Len(tasks) = 0

\* a run that failed in the Extraction Phase after all its continuations
C5_FailedAfterContinuations ==
    /\ apc = "failed"
    /\ error = [phase |-> "extraction", cause |-> "extraction_failed"]
    /\ calls.extractCont = MAX_CONTINUATION_ATTEMPTS
    /\ Len(tasks) = 0

\* C6: no Extraction request is sent while a summarization call is in
\* flight, no Detail task exists before the extraction is validated and
\* while an Extraction request is in flight, and analyzeBook returns only
\* when every Detail task has resolved and no request is in flight.
C6_PhaseOrder ==
    /\ (\E r \in inflight : r.kind = "summarize") =>
           /\ calls.extract = 0 /\ calls.extractCont = 0
           /\ extraction = NULL /\ Len(tasks) = 0
    /\ calls.extract > 0 => ~ \E r \in inflight : r.kind = "summarize"
    /\ (\E r \in inflight : r.kind \in {"extract", "continue_extract"}) =>
           extraction = NULL /\ Len(tasks) = 0
    /\ Len(tasks) > 0 => extraction # NULL /\ inflight = {}
    /\ apc = "done" =>
           /\ inflight \cup TaskRequests(tasks, textToAnalyze) = {}
           /\ \A i \in DOMAIN tasks : tasks[i].st = "fulfilled"
           /\ \A w \in DOMAIN workers : workers[w].st = "done"

\* a run that went through reduction, a continued Extraction and at least
\* two Detail tasks before it returned
C6_AllPhases ==
    /\ apc = "done"
    /\ calls.summarize >= 2
    /\ calls.extractCont >= 1
    /\ Len(tasks) >= 2

\* C7: at most MAX_PARALLEL_CHARACTER_CALLS Detail tasks are in flight, and
\* the pool has min(concurrency, number of tasks) workers.
C7_BoundedPool ==
    Len(tasks) > 0 =>
        /\ Cardinality(InFlightTasks) <= MAX_PARALLEL_CHARACTER_CALLS
        /\ Len(workers) = Min(MAX_PARALLEL_CHARACTER_CALLS, Len(tasks))
        /\ Len(workers) <= Len(tasks)

\* a full pool with a roster entry still waiting for a worker
C7_PoolFull ==
    /\ Len(tasks) = 3
    /\ Cardinality(InFlightTasks) = MAX_PARALLEL_CHARACTER_CALLS
    /\ tasks[3].st = "pending"

\* C8: every index below nextIndex has been claimed exactly once and none
\* above it, two workers never await the same task, every slot is written
\* at most once, and exactly once when the pool has finished.
C8_EachTaskOnce ==
    Len(tasks) > 0 =>
        /\ nextIndex \in 1..(Len(tasks) + 1)
        /\ \A i \in DOMAIN tasks :
             /\ launched[i] = (IF i < nextIndex THEN 1 ELSE 0)
             /\ written[i] <= 1
             /\ written[i] = 1 => tasks[i].st = "fulfilled" /\ results[i] = tasks[i].value
             /\ written[i] = 0 => results[i] = UNFILLED
        /\ \A v, w \in DOMAIN workers :
             (v # w /\ workers[v].st = "awaiting" /\ workers[w].st = "awaiting")
                 => workers[v].index # workers[w].index
        /\ apc = "done" =>
             \A i \in DOMAIN tasks : launched[i] = 1 /\ written[i] = 1

\* a returned run of three roster entries, more than the pool has workers
C8_AllLaunched ==
    /\ apc = "done"
    /\ Len(tasks) = 3
    /\ Len(workers) < Len(tasks)
    /\ \A i \in DOMAIN tasks : launched[i] = 1 /\ written[i] = 1

\* C9: a launched item has had between 1 and MAX_CHARACTER_RETRIES + 1
\* initial requests, one per attempt; a further one is sent only in the step
\* that ends the item's previous attempt without a result, and none once the
\* item has resolved.
C9_Counts ==
    \A i \in DOMAIN tasks :
        /\ launched[i] = 0 => detailReqs[i] = 0
        /\ launched[i] >= 1 => detailReqs[i] \in 1..(MAX_CHARACTER_RETRIES + 1)
        /\ i \in InFlightTasks => detailReqs[i] = tasks[i].retry + 1

C9_Step ==
    \A i \in DOMAIN tasks :
        /\ detailReqs'[i] # detailReqs[i] =>
             /\ detailReqs'[i] = detailReqs[i] + 1
             /\ tasks'[i].st = "request"
             /\ \/ tasks[i].st = "pending" /\ tasks'[i].retry = 0
                \/ i \in InFlightTasks /\ tasks'[i].retry = tasks[i].retry + 1
        /\ Settled(tasks[i]) => tasks'[i] = tasks[i] /\ detailReqs'[i] = detailReqs[i]

C9_BoundedRetries == []C9_Counts /\ [][C9_Step]_vars

\* a returned run in which one item succeeded only in its last attempt and
\* another in its first
C9_LastAttempt ==
    /\ apc = "done"
    /\ \E i, j \in ProfileTasks :
         detailReqs[i] = MAX_CHARACTER_RETRIES + 1 /\ detailReqs[j] = 1

\* C10: the reply buffer of an attempt holds only text received for this
\* item in this attempt: it is empty while the attempt's initial request is
\* in flight, the continuation counter is then zero, and while continuation
\* number n is in flight it holds the initial reply and n - 1 continuations.
C10_FreshBuffer ==
    \A i \in DOMAIN tasks :
        LET t == tasks[i]
        IN /\ \A k \in DOMAIN t.content : t.content[k] = [item |-> i, retry |-> t.retry]
           /\ t.st = "request" => t.content = <<>> /\ t.attempt = 0
           /\ t.st = "cont" => /\ t.attempt \in 1..MAX_CONTINUATION_ATTEMPTS
                               /\ Len(t.content) = t.attempt

\* a retry that has received its initial reply and one continuation
C10_RetryContinued ==
    \E i \in DOMAIN tasks :
        /\ tasks[i].retry >= 1
        /\ tasks[i].st = "cont"
        /\ tasks[i].attempt = 2
        /\ Len(tasks[i].content) = 2

\* C11: a continuation call is in flight only when the finish reason of the
\* initial reply was 'length', in the Extraction and in the Detail Phase, and
\* it is at most the MAX_CONTINUATION_ATTEMPTS-th call behind that reply.
C11_ContinuationsBounded ==
    /\ calls.extract <= 1
    /\ calls.extractCont <= MAX_CONTINUATION_ATTEMPTS
    /\ apc = "extract_cont" =>
           /\ exFinishReason = "length"
           /\ exAttempt \in 1..MAX_CONTINUATION_ATTEMPTS
           /\ calls.extractCont = exAttempt
    /\ (calls.extractCont > 0 /\ error.phase = "extraction") =>
           exFinishReason = "length"
    /\ \A i \in DOMAIN tasks :
         tasks[i].st = "cont" =>
             /\ tasks[i].finishReason = "length"
             /\ tasks[i].attempt \in 1..MAX_CONTINUATION_ATTEMPTS
    /\ \A i \in DOMAIN tasks :
         tasks[i].st = "request" => tasks[i].attempt = 0

\* the last continuation of a Detail item in flight, in a run whose
\* Extraction used all its continuations
C11_LastContinuation ==
    /\ calls.extractCont = MAX_CONTINUATION_ATTEMPTS
    /\ \E i \in DOMAIN tasks :
         tasks[i].st = "cont" /\ tasks[i].attempt = MAX_CONTINUATION_ATTEMPTS

\* C12: a further continuation call follows a continuation only when that
\* one was not empty, was appended to the end of the buffer, left the whole
\* buffer invalid and the bound was not reached; when the loop is left no
\* continuation call is sent.
C12_Phase1Step ==
    apc = "extract_cont" =>
        /\ apc' = "extract_cont" =>
               /\ exContent' = exContent + 1
               /\ ~ExtractionValid(exParsed')
               /\ exAttempt' = exAttempt + 1
               /\ exAttempt' <= MAX_CONTINUATION_ATTEMPTS
               /\ calls'.extractCont = calls.extractCont + 1
        /\ apc' # "extract_cont" => calls'.extractCont = calls.extractCont
        /\ (apc' = "failed" /\ exContent' = exContent + 1) =>
               ~ExtractionValid(exParsed') /\ exAttempt = MAX_CONTINUATION_ATTEMPTS

C12_DetailStep ==
    \A i \in DOMAIN tasks :
        (tasks[i].st = "cont" /\ tasks'[i] # tasks[i]) =>
            \/ /\ tasks'[i].st = "cont"
               /\ tasks'[i].retry = tasks[i].retry
               /\ tasks'[i].content # tasks[i].content
               /\ SubSeq(tasks'[i].content, 1, Len(tasks[i].content)) = tasks[i].content
               /\ Len(tasks'[i].content) = Len(tasks[i].content) + 1
               /\ ~tasks'[i].parses
               /\ tasks'[i].attempt = tasks[i].attempt + 1
               /\ tasks'[i].attempt <= MAX_CONTINUATION_ATTEMPTS
            \/ Settled(tasks'[i])
            \/ /\ tasks'[i].st = "request"
               /\ tasks'[i].retry = tasks[i].retry + 1

C12_LoopExits == [][C12_Phase1Step /\ C12_DetailStep]_vars

\* the Extraction's loop was left after one continuation, with attempts to
\* spare, and a Detail item's buffer has taken a continuation
C12_SecondContinuation ==
    /\ apc = "detail"
    /\ calls.extractCont = 1
    /\ MAX_CONTINUATION_ATTEMPTS > 1
    /\ \E i \in DOMAIN tasks :
         tasks[i].st = "cont" /\ tasks[i].attempt = 2 /\ Len(tasks[i].content) = 2

C14_DirectRun ==
    /\ Len(bookText) <= maxCharsForInput(contextLength) =>
           /\ calls.summarize = 0
           /\ ~reduced.ran
           /\ \A r \in inflight : r.kind # "summarize"
           /\ apc \in {"extract", "detail", "done"} => textToAnalyze = Len(bookText)
    /\ apc = "failed" => ~apiKey
    /\ calls.extract <= 1
    /\ calls.extractCont = 0
    /\ \A i \in DOMAIN tasks :
         /\ tasks[i].st # "cont"
         /\ detailReqs[i] = launched[i]
         /\ detailReqs[i] <= 1
    /\ apc = "done" =>
           /\ calls.extract = 1
           /\ Len(tasks) = Len(extraction.characters)
           /\ \A i \in DOMAIN tasks : detailReqs[i] = 1
           /\ Len(analysis.characters) = Len(tasks)

\* a returned run of three roster entries on the longer book
C14_ThreeEntries ==
    /\ apc = "done"
    /\ Len(bookText) > 2
    /\ Len(tasks) = 3
    /\ calls.summarize = 0

\* C15: at most one summarization call is in flight; while the chunks are
\* summarized it is the call for the chunk behind the summaries received,
\* the k-th summary is that of chunk k, and when the loop is left there is
\* one summary per chunk and combined is their join in this order.
C15_SequentialSummaries ==
    /\ Cardinality({ r \in inflight : r.kind = "summarize" }) <= 1
    /\ \A k \in DOMAIN summaries : summaries[k].chunk = k
    /\ apc = "summarize" =>
           /\ Len(summaries) < Len(chunks)
           /\ calls.summarize = Len(summaries) + 1
           /\ inflight = { Req("summarize", Len(summaries) + 1,
                               Len(chunks[Len(summaries) + 1])) }
    /\ apc = "resummarize" =>
           /\ Len(summaries) = Len(chunks)
           /\ calls.summarize = Len(chunks) + reduceAttempt
           /\ reduceAttempt = 1 =>
                  combined = SumSeq(Lens(summaries))
                             + JoinSeparatorLen * (Len(chunks) - 1)
    /\ apc \notin {"start", "summarize", "resummarize"} =>
           \A r \in inflight : r.kind # "summarize"

\* the summaries of two chunks have been joined and found over the budget
C15_TwoJoined ==
    /\ apc = "resummarize"
    /\ reduceAttempt = 1
    /\ Len(chunks) = 2
    /\ Len(summaries) = 2

\* C16: a re-summarization is in flight only for a text over the budget and
\* is at most the third; reduction ends before the third only with a text
\* within the budget; the marker is appended only to a text still over the
\* budget after the third, and a text within the budget is passed on as it
\* is.
C16_ReductionBound ==
    LET maxChars == maxCharsForInput(contextLength)
    IN /\ apc = "resummarize" =>
              /\ combined > maxChars
              /\ reduceAttempt \in 1..maxReduceAttempts
       /\ reduced.ran =>
              /\ reduced.attempts \in 0..maxReduceAttempts
              /\ reduced.attempts < maxReduceAttempts => reduced.final <= maxChars
              /\ reduced.marker <=> reduced.final > maxChars
              /\ reduced.marker => reduced.attempts = maxReduceAttempts
              /\ ~reduced.marker => textToAnalyze = reduced.final
              /\ reduced.marker =>
                     textToAnalyze = SliceLen(reduced.final, maxChars - 1) + 1

\* reduction ended with the marker after its third attempt
C16_Marked ==
    /\ reduced.ran
    /\ contextLength = ContextLength
    /\ reduced.attempts = maxReduceAttempts
    /\ reduced.marker
    /\ textToAnalyze = maxCharsForInput(contextLength)

\* C17: the text analyzeBook puts in the Extraction prompt is never longer
\* than maxCharsForInput.  (Violated: with contextLength = 1 the budget is 0,
\* slice(0, -1) drops one character and the marker adds one.)
C17_PromptWithinBudget ==
    \A r \in inflight :
        r.kind = "extract" => r.len <= maxCharsForInput(contextLength)

\* C18: no run fails on a summarization call of the reduction.  (Violated:
\* summarizeChunk's error propagates out of analyzeBook.)
C18_ReductionNeverFails ==
    error.phase # "reduction"

\* C19: when the only failures are timeouts, every failed Detail attempt has
\* consumed one retry, an item resolves to null only when it has used all
\* its attempts and is then dropped from the result, a timeout in the
\* Extraction Phase or in the reduction fails the run, and the handler of a
\* timeout's error is that of every other error of the same call.
C19_TimeoutIsFailure ==
    /\ \A i \in InFlightTasks :
         /\ detailReqs[i] = tasks[i].retry + 1
         /\ \A e \in ErrorKinds :
              OnError(tasks[i], e) = OnError(tasks[i], "timeout")
         /\ LET after == OnError(tasks[i], "timeout")
            IN IF tasks[i].retry < MAX_CHARACTER_RETRIES
               THEN /\ after.st = "request"
                    /\ after.retry = tasks[i].retry + 1
                    /\ after.content = <<>>
               ELSE after.st = "fulfilled" /\ after.value = NULL
    /\ \A i \in NullTasks : detailReqs[i] = MAX_CHARACTER_RETRIES + 1
    /\ \A i \in ProfileTasks : detailReqs[i] \in 1..(MAX_CHARACTER_RETRIES + 1)
    /\ error.cause \in {"timed_out", "timeout"} =>
           /\ apc = "failed"
           /\ analysis = NULL
           /\ Len(tasks) = 0
    /\ apc = "failed" =>
           error.cause \in {"apiKey", "timed_out", "timeout", "no_characters"}
    /\ apc = "done" =>
           /\ Len(analysis.characters) = Cardinality(ProfileTasks)
           /\ \A k \in DOMAIN analysis.characters :
                analysis.characters[k].item \in ProfileTasks

\* a returned run in which one item timed out in every attempt and another
\* succeeded after one timeout
C19_TimedOutItems ==
    /\ apc = "done"
    /\ \E i \in NullTasks, j \in ProfileTasks : detailReqs[j] = 2

\* C20: safeContextSize is floor(contextLength / 2) and less than
\* contextLength, maxCharsForInput is four times it, a larger context length
\* never gives a smaller budget and one larger by two or more gives a larger
\* one; this budget is the one the book is measured against.
C20_Budget ==
    LET safe == safeContextSize(contextLength)
    IN /\ safe < contextLength
       /\ 2 * safe <= contextLength
       /\ contextLength < 2 * safe + 2
       /\ maxCharsForInput(contextLength) = 4 * safe
       /\ \A d \in ContextLengths :
            /\ d >= contextLength =>
                   maxCharsForInput(d) >= maxCharsForInput(contextLength)
            /\ d >= contextLength + 2 =>
                   maxCharsForInput(d) > maxCharsForInput(contextLength)
       /\ apc \in {"summarize", "resummarize"} =>
              Len(bookText) > 4 * safe
       /\ (apc = "extract" /\ ~reduced.ran) => Len(bookText) <= 4 * safe

\* an odd context length, whose half is rounded down, with the book over
\* the budget
C20_OddLength ==
    /\ contextLength = 5
    /\ apc = "summarize"

\* ---- The Chunker ----
ChunkerReturned == call.fn \in {"chunkText", "chunkByChapters"} /\ call.returned

\* the chunk budget in characters: floor(safeContextSize * 0.8) * 4
ChunkBudget == chunkTokenSize(safeContextSize(contextLength)) * CHARS_PER_TOKEN

RECURSIVE Flatten(_)
Flatten(seqs) == IF seqs = <<>> THEN <<>> ELSE Head(seqs) \o Flatten(Tail(seqs))

Paragraphs(t) == SplitParagraphs(t, 1, <<>>)

\* the blank-line-delimited paragraphs of the text or chapters handed over
InputParagraphs ==
    IF call.fn = "chunkText"
    THEN Paragraphs(call.text)
    ELSE Flatten([k \in DOMAIN call.chapters |-> Paragraphs(chapterText(call.chapters[k]))])

\* the paragraphs read off the chunks, in the order of the chunks
OutputParagraphs ==
    Flatten([i \in DOMAIN call.result |-> Paragraphs(call.result[i])])

\* what paragraphs say: each without the white space around it, the blank
\* ones left out
Content(ps) ==
    SelectSeq([k \in DOMAIN ps |-> Trim(ps[k])], LAMBDA p : p # <<>>)

\* C21: every chunk of chunkText and of chunkByChapters is at most
\* ChunkBudget characters long, unless it is one paragraph of the input
\* that alone is longer than the budget.
C21_ChunksWithinBudget ==
    ChunkerReturned =>
        LET ps == InputParagraphs
        IN \A i \in DOMAIN call.result :
              \/ Len(call.result[i]) <= ChunkBudget
              \/ \E k \in DOMAIN ps :
                    Len(ps[k]) > ChunkBudget /\ call.result[i] = Trim(ps[k])

\* chapters were chunked into a chunk that is one oversized paragraph and
\* a chunk of several paragraphs within the budget
C21_OversizedAndPacked ==
    /\ call.fn = "chunkByChapters" /\ call.returned
    /\ \E i, j \in DOMAIN call.result :
          /\ Len(call.result[i]) > ChunkBudget
          /\ Len(call.result[j]) <= ChunkBudget
          /\ Len(Paragraphs(call.result[j])) >= 2

WithoutNewlines(t) == SelectSeq(t, LAMBDA c : c # NL)

\* C22: the chunks of chunkText, concatenated in order, are the text it
\* was given, character for character, every newline (separator or not)
\* left out of the comparison.
C22_ConcatenationReproducesText ==
    (call.fn = "chunkText" /\ call.returned) =>
        WithoutNewlines(Flatten(call.result)) = WithoutNewlines(call.text)

\* C23: no paragraph is split and the order is kept: the paragraphs read
\* off the chunks, in order, are the paragraphs of the input that have
\* content, each once and whole up to the white space around it (trim()
\* takes that off the ends of a chunk, which is C22's matter).
C23_ParagraphsWhole ==
    ChunkerReturned => Content(OutputParagraphs) = Content(InputParagraphs)

\* chapters were chunked into several chunks, one of them holding two
\* paragraphs, with a chapter split between two chunks
C23_SplitChapter ==
    /\ call.fn = "chunkByChapters" /\ call.returned
    /\ \E i \in DOMAIN call.result : Len(Content(Paragraphs(call.result[i]))) >= 2
    /\ \E i, j \in DOMAIN call.result, k \in DOMAIN call.chapters :
          /\ i # j
          /\ \E x \in DOMAIN call.result[i] : call.result[i][x] = Letter(k)
          /\ \E x \in DOMAIN call.result[j] : call.result[j][x] = Letter(k)

\* the chapters with text in a chunk
ChaptersIn(chunk) ==
    { k \in DOMAIN call.chapters : \E x \in DOMAIN chunk : chunk[x] = Letter(k) }

\* the chunks with text of chapter k
ChunksOf(k) == { i \in DOMAIN call.result : k \in ChaptersIn(call.result[i]) }

TooLong(k) == Len(chapterText(call.chapters[k])) > ChunkBudget

SetMin(S) == CHOOSE x \in S : \A y \in S : x <= y
SetMax(S) == CHOOSE x \in S : \A y \in S : x >= y

\* chapters lo..hi as they are accumulated into one pending chunk
Accumulated(lo, hi) ==
    Flatten([k \in 1..(hi - lo + 1) |->
                chapterText(call.chapters[lo + k - 1]) \o <<NL, NL>>])

\* C24: a chapter longer than the budget is alone in each of its chunks,
\* which come after the chunks of the chapters before it and before those
\* of the chapters after it; the chapters within the budget fill a chunk
\* in order, whole, and a chunk is closed only when the next chapter
\* would take it over the budget or is itself too long.
C24_OversizedChapterStandsAlone ==
    (call.fn = "chunkByChapters" /\ call.returned) =>
        LET out == call.result
            In(i) == ChaptersIn(out[i])
        IN /\ \A k \in DOMAIN call.chapters : ChunksOf(k) # {}
           /\ \A i \in DOMAIN out : In(i) # {}
           /\ \A i, j \in DOMAIN out :
                 i < j => \A a \in In(i), b \in In(j) : a <= b
           /\ \A i \in DOMAIN out : \A k \in In(i) : TooLong(k) => In(i) = {k}
           /\ \A i \in DOMAIN out :
                 (\A k \in In(i) : ~TooLong(k)) =>
                    LET lo == SetMin(In(i))
                        hi == SetMax(In(i))
                    IN /\ out[i] = Trim(Accumulated(lo, hi))
                       /\ Len(out[i]) <= ChunkBudget
                       /\ \A k \in lo..hi : ChunksOf(k) = {i}
                       /\ hi < Len(call.chapters) =>
                             \/ TooLong(hi + 1)
                             \/ Len(Accumulated(lo, hi))
                                  + Len(chapterText(call.chapters[hi + 1])) > ChunkBudget

\* a chapter too long for a chunk between two chunks that each hold two
\* chapters
C24_BetweenPackedChunks ==
    /\ call.fn = "chunkByChapters" /\ call.returned
    /\ \E i, j, m \in DOMAIN call.result :
          /\ i < j /\ j < m
          /\ Cardinality(ChaptersIn(call.result[i])) = 2
          /\ \E k \in ChaptersIn(call.result[j]) : TooLong(k)
          /\ Cardinality(ChaptersIn(call.result[m])) = 2

\* five chapters of which only the third is longer than the budget
FiveChapters ==
    /\ call.fn = "chunkByChapters" /\ call.returned
    /\ Len(call.chapters) = 5
    /\ \A k \in 1..5 : TooLong(k) <=> k = 3

\* chapter 3 is alone in its chunks, which hold its paragraphs whole and in
\* order; chapters 1, 2, 4 and 5 are each whole in one chunk within the
\* budget
OnlyThirdSplit ==
    /\ \A i \in ChunksOf(3) : ChaptersIn(call.result[i]) = {3}
    /\ Content(Flatten([i \in 1..Len(call.result) |->
                    IF i \in ChunksOf(3) THEN Paragraphs(call.result[i]) ELSE <<>>]))
          = Content(Paragraphs(chapterText(call.chapters[3])))
    /\ \A k \in {1, 2, 4, 5} :
          /\ Cardinality(ChunksOf(k)) = 1
          /\ \A i \in ChunksOf(k) : Len(call.result[i]) <= ChunkBudget

\* C25 as stated: of five chapters with only the third longer than the
\* budget, the third alone is split by paragraphs, into at least 2 chunks.
C25_ThirdInTwoChunks ==
    FiveChapters => (Cardinality(ChunksOf(3)) >= 2 /\ OnlyThirdSplit)

\* C25: of five chapters with only the third longer than the budget, the
\* third alone is split by paragraphs, into standalone chunks: one chunk
\* when it is a single paragraph without a title, at least 2 when, with
\* its title marker, it has two or more paragraphs a blank line apart.
C25_ThirdSplitByParagraphs ==
    FiveChapters =>
        LET n == Len(Paragraphs(chapterText(call.chapters[3])))
        IN /\ Cardinality(ChunksOf(3)) >= 1
           /\ n = 1 => Cardinality(ChunksOf(3)) = 1
           /\ n >= 2 => Cardinality(ChunksOf(3)) >= 2
           /\ OnlyThirdSplit

\* the third chapter is one paragraph without a title and ends up in one
\* chunk, between a chunk with chapters 1 and 2 and one with 4 and 5
C25_SingleParagraphChapter ==
    /\ FiveChapters
    /\ call.chapters[3].title = <<>>
    /\ Cardinality(ChunksOf(3)) = 1
    /\ \E i, j \in DOMAIN call.result :
          ChaptersIn(call.result[i]) = {1, 2} /\ ChaptersIn(call.result[j]) = {4, 5}

\* ---- The Repairer ----
\* C26: parseAIResponse returns the result of the first of its parses
\* that succeeds: of the reply itself when that parses, with nothing
\* stripped, extracted or repaired; of the cleaned text only when the reply
\* does not parse; of the repaired text only when neither parses; and it
\* throws only when none does.
C26_FirstSuccessWins ==
    (call.fn = "parseAIResponse" /\ call.returned) =>
        LET direct == JSONparse(call.content)
            second == JSONparse(Cleaned(call.content))
            repaired == repairTruncatedJSON(Cleaned(call.content))
            r == call.result
        IN /\ r.ok <=> r.via # "throw"
           /\ direct.ok => (r.via = "direct" /\ r.value = direct.v)
           /\ r.via = "direct" => direct.ok
           /\ r.via = "cleaned" => (~direct.ok /\ second.ok /\ r.value = second.v)
           /\ r.via = "repaired" =>
                 /\ ~direct.ok /\ ~second.ok /\ ~repaired.null
                 /\ JSONparse(repaired.text).ok
                 /\ r.value = JSONparse(repaired.text).v
           /\ r.via = "throw" =>
                 /\ ~direct.ok /\ ~second.ok
                 /\ repaired.null \/ ~JSONparse(repaired.text).ok

\* a reply that parses was returned as parsed although the object inside
\* it, extracted, parses to something else
C26_DirectOverExtraction ==
    /\ call.fn = "parseAIResponse" /\ call.returned
    /\ call.result.via = "direct"
    /\ JSONparse(Cleaned(call.content)).ok
    /\ JSONparse(Cleaned(call.content)).v # call.result.value

\* The scopes of a text, read with strings and escapes respected: is every
\* closing bracket the closer of the scope it closes (ok), does the text
\* end inside a string, which scopes are open at its end.
RECURSIVE Nesting(_, _, _)
Nesting(t, i, st) ==
    IF i > Len(t) THEN st
    ELSE IF st.inString
         THEN IF t[i] = "\\" THEN Nesting(t, i + 2, st)
              ELSE Nesting(t, i + 1, [st EXCEPT !.inString = t[i] # "\""])
    ELSE IF t[i] = "\"" THEN Nesting(t, i + 1, [st EXCEPT !.inString = TRUE])
    ELSE IF t[i] \in {"{", "["}
         THEN Nesting(t, i + 1, [st EXCEPT !.stack = Append(st.stack, t[i])])
    ELSE IF t[i] \in {"}", "]"}
         THEN IF st.stack # <<>> /\ Closer(st.stack[Len(st.stack)]) = t[i]
              THEN Nesting(t, i + 1,
                       [st EXCEPT !.stack = SubSeq(st.stack, 1, Len(st.stack) - 1)])
              ELSE Nesting(t, i + 1, [st EXCEPT !.ok = FALSE])
    ELSE Nesting(t, i + 1, st)

NestingOf(t) == Nesting(t, 1, [ok |-> TRUE, inString |-> FALSE, stack |-> <<>>])

Balanced(t) ==
    LET n == NestingOf(t)
    IN n.ok /\ ~n.inString /\ n.stack = <<>>

\* C27: what repairTruncatedJSON returns for a prefix of a JSON text is a
\* prefix of its input that ends outside a string, followed by the closers
\* of exactly the scopes that prefix leaves open, innermost first, so that
\* its brackets outside strings are balanced and properly nested; it
\* returns null only when the input leaves no scope open.
C27_ClosesOpenScopes ==
    (call.fn = "repairTruncatedJSON" /\ call.returned) =>
        LET r == call.result
        IN /\ ~r.null =>
                 /\ Balanced(r.text)
                 /\ \E n \in 0..Len(call.content) :
                       LET kept == SubSeq(call.content, 1, n)
                           open == NestingOf(kept)
                       IN /\ open.ok /\ ~open.inString /\ open.stack # <<>>
                          /\ r.text = kept \o
                                [k \in DOMAIN open.stack |->
                                    Closer(open.stack[Len(open.stack) + 1 - k])]
           /\ r.null => NestingOf(call.content).stack = <<>>

\* a reply cut inside an array inside an object, after a string with a
\* bracket in it and a string with an escaped quote, was closed with ] and }
C27_MixedScopes ==
    /\ call.fn = "repairTruncatedJSON" /\ call.returned
    /\ ~call.result.null
    /\ \E x \in DOMAIN call.content : call.content[x] = "\\"
    /\ LET text == call.result.text
       IN /\ Len(text) >= 2
          /\ text[Len(text) - 1] = "]"
          /\ text[Len(text)] = "}"

\* the reply is an object cut inside a string that is a key or a value of
\* the object itself
CutInString(t) ==
    LET n == NestingOf(t)
    IN t # <<>> /\ t[1] = "{" /\ n.inString /\ n.stack = <<"{">>

\* the object of the members that are complete in the text: the longest
\* prefix that parses once the object is closed by hand
CompleteMembers(t) ==
    LET closable == { n \in 1..Len(t) : JSONparse(SubSeq(t, 1, n) \o <<"}">>).ok }
        n == CHOOSE x \in closable : \A y \in closable : x >= y
    IN JSONparse(SubSeq(t, 1, n) \o <<"}">>).v

\* C28: a reply that is an object cut inside one of its strings is parsed
\* by parseAIResponse, through truncation repair, to the object of exactly
\* the members that were complete before the cut.
C28_RepairKeepsCompleteMembers ==
    (call.fn = "parseAIResponse" /\ call.returned /\ CutInString(call.content)) =>
        /\ call.result.ok
        /\ call.result.value = CompleteMembers(call.content)

C30_DetailNeverRejected ==
    (call.fn = "validateCharacterDetail" /\ call.returned) =>
        LET in == call.arg
            out == call.result.value
            Text(a, b) == b = IF a = UNFILLED THEN JString(<<>>) ELSE a
        IN /\ ~call.result.threw
           /\ out.name = IF in.name \in {UNFILLED, JString(<<>>)} THEN ExpectedName ELSE in.name
           /\ Text(in.background, out.background)
           /\ Text(in.physicalDescription, out.physicalDescription)
           /\ Text(in.personality, out.personality)
           /\ Text(in.scenario, out.scenario)
           /\ Text(in.exampleDialogue, out.exampleDialogue)
           /\ out.commonPhrases = IF in.commonPhrases.kind = "array"
                                  THEN in.commonPhrases ELSE JArray(<<>>)
           /\ out.tags = IF in.tags.kind = "array" THEN in.tags ELSE JArray(<<>>)
           /\ out.firstMessages.kind = "array"
           /\ in.firstMessages \in {JArray(<<>>), JArray(<<JString(<<"h">>)>>)}
                 => out.firstMessages = in.firstMessages
           /\ out.canBePersona = IF in.canBePersona \in {UNFILLED, NULL}
                                 THEN JBoolean(FALSE) ELSE in.canBePersona

\* ---- Requests and their sizes ----
\* C36: no summarization request of the Reduction Engine, for a chunk or
\* for the combined summaries, carries more than maxCharsForInput characters
\* of text.  (Violated: the reduction loop sends the combined summaries just
\* when they are over the budget, and a paragraph longer than the budget is
\* a chunk of its own.)
C36_SummarizationWithinBudget ==
    \A r \in inflight :
        r.kind = "summarize" => r.len <= maxCharsForInput(contextLength)

\* C37: a profile that validateCharacterDetail returns carries the name and
\* the role of the roster entry it was asked for, whatever the reply held.
\* (Violated: the name of the reply is kept when there is one, and the role
\* of the roster entry is not handed to the validator.)
C37_ProfileCarriesNameAndRole ==
    (call.fn = "validateCharacterDetail" /\ call.returned /\ ~call.result.threw) =>
        /\ call.result.value.name = ExpectedName
        /\ call.result.value.role = ExpectedRole

\* ---- The cards ----
\* the place of a role in the order main_character, protagonist,
\* love_interest, antagonist, supporting, mentor, rival, any other role
Priority(role) == IF role \in DOMAIN roleOrder THEN roleOrder[role] ELSE 7

\* C40: generateCharacterCards puts the characters in the order of their
\* roles, main_character first and a role it does not know last, so that
\* the main characters and protagonists come first and the persona cards,
\* two at most, are made for the first two that can be personas.
\* (Violated: main_character has the number 0, which || 99 replaces, so a
\* main character comes behind every known role.)
C40_RolePriority ==
    (call.fn = "generateCharacterCards" /\ call.returned) =>
        LET cards == call.result
        IN /\ \A i, j \in DOMAIN cards :
                 i < j => Priority(cards[i].char.role) <= Priority(cards[j].char.role)
           /\ Cardinality({ k \in DOMAIN cards : cards[k].isPersona }) <= 2

\* C35: the estimated input tokens of a request (the length of its prompt
\* divided by 4, rounded up) and the max_tokens it asks for are together at
\* most the context length.  (Violated: max_tokens is never less than
\* MAX_RESPONSE_TOKENS unless the provider's limit is, whatever the window
\* has left.)
C35_RequestFitsContext ==
    (call.fn = "calcMaxResponseTokens" /\ call.returned) =>
        LET promptLen == buildExtractionPrompt(call.textLen)
            estimate == (promptLen + CHARS_PER_TOKEN - 1) \div CHARS_PER_TOKEN
        IN estimate + call.result <= contextLength

\* ---- The progress store ----
\* C33: once the POST /file handler has responded, with 200, 400 or 500,
\* the progress store holds no entry for the session id of the request.
\* (Violated: the returns with status 400 leave the entry written at the
\* start of the request.)
C33_ClearedOnResponse ==
    (call.fn = "postFile" /\ call.pc = "responded") =>
        SessionId \notin DOMAIN progressStore

\* C34: getProgress never returns a message whose last update is more than
\* TTL_MS ago; an entry leaves the store only when it is cleared by the
\* handler's response or is older than TTL_MS, counted from its last
\* updateProgress; and an entry that is no longer updated is deleted in the
\* end.
C34_Eviction ==
    /\ [](polled # UNFILLED /\ polled # NULL => polled.age <= TTL_MS)
    /\ [][\A s \in DOMAIN progressStore :
             s \notin DOMAIN progressStore' =>
                \/ progressStore[s].age > TTL_MS
                \/ call.pc # "responded" /\ call'.pc = "responded"]_vars
    /\ (SessionId \in DOMAIN progressStore /\ progressStore[SessionId].age > 0)
          ~> (\/ SessionId \notin DOMAIN progressStore
              \/ progressStore[SessionId].age = 0)

\* the entry of a request rejected with status 400 was left in the store,
\* was polled while it was young and is gone now
C34_AbandonedEvicted ==
    /\ call.fn = "postFile" /\ call.pc = "responded" /\ call.status = 400
    /\ polled # UNFILLED /\ polled # NULL
    /\ polled.age = TTL_MS
    /\ SessionId \notin DOMAIN progressStore

\* C31: the worldInfo of analyzeBook's result is the worldInfo the Extraction
\* Phase produced: once Phase 1 has stored its result, no step of the Detail
\* Phase (first replies, retries, continuations, the workers) changes its
\* worldInfo, and the assembled analysis carries it unchanged, locations and
\* keywords included.
C31_WorldInfoPassedThrough ==
    /\ [](analysis # NULL => analysis.worldInfo = extraction.worldInfo)
    /\ [][extraction # NULL =>
            /\ extraction' # NULL
            /\ extraction'.worldInfo = extraction.worldInfo]_vars

\* a run that returned a filled worldInfo, with its location's keyword, after
\* an item was retried and an item was skipped
C31_FilledWorldInfoReturned ==
    /\ apc = "done"
    /\ analysis.worldInfo = FilledWorldInfo
    /\ analysis.worldInfo.locations.items[1].keywords = JArray(<<JString(<<"k">>)>>)
    /\ \E i \in DOMAIN detailReqs : detailReqs[i] > 1
    /\ \E i \in DOMAIN results : results[i] = NULL

\* C chunks: what the Reduction Engine splits the book into, 0 when the book
\* is within the budget
ChunkCount ==
    IF OverBudget(Len(bookText), maxCharsForInput(contextLength))
    THEN LET size == chunkTokenSize(safeContextSize(contextLength))
         IN Len(IF Len(chapters) > 0 THEN chunkByChapters(chapters, size)
                ELSE chunkText(bookText, size))
    ELSE 0

\* the requests sent so far, every Detail attempt counted with all the
\* continuations it may send
RequestsAtMost ==
    calls.summarize + calls.extract + calls.extractCont
    + SumSeq(detailReqs) * (1 + MAX_CONTINUATION_ATTEMPTS)

RequestBound ==
    ChunkCount + maxReduceAttempts + (1 + MAX_CONTINUATION_ATTEMPTS)
    + Len(tasks) * (MAX_CHARACTER_RETRIES + 1) * (1 + MAX_CONTINUATION_ATTEMPTS)

\* item i sends a continuation request in this step
SendsContinuation(i) ==
    /\ i \in DOMAIN tasks /\ i \in DOMAIN tasks'
    /\ tasks'[i].st = "cont"
    /\ tasks'[i] # tasks[i]

\* C38: when every LLM call returns or fails and every ready continuation is
\* resumed, analyzeBook ends (returns or throws), and it ends only when every
\* item has settled, whatever its siblings did; and a run sends at most
\* C + 3 + (1 + K) + N*(R + 1)*(1 + K) requests: the summarize and Extraction
\* requests are counted, a Detail attempt sends one request and at most K
\* continuations, numbered 1..K within the attempt, and an item has at most
\* R + 1 attempts.
C38_Terminates ==
    /\ <>(apc \in {"done", "failed"})
    /\ [](apc \in {"done", "failed"} => \A i \in DOMAIN tasks : Settled(tasks[i]))
    /\ [](RequestsAtMost <= RequestBound)
    /\ [][\A i \in 1..MaxItems :
            SendsContinuation(i) =>
                /\ tasks'[i].retry = tasks[i].retry
                /\ tasks'[i].attempt = tasks[i].attempt + 1
                /\ tasks'[i].attempt <= MAX_CONTINUATION_ATTEMPTS
                /\ tasks[i].st = "cont" \/ tasks[i].attempt = 0]_vars

\* a run over a chunked book that returned after one item used every attempt
\* and was skipped while its sibling got its profile
C38_EndedAfterEveryAttempt ==
    /\ apc = "done"
    /\ ChunkCount > 1
    /\ calls.summarize > ChunkCount
    /\ \E i, j \in DOMAIN tasks :
          /\ detailReqs[i] = MAX_CHARACTER_RETRIES + 1 /\ results[i] = NULL
          /\ results[j] = Profile(j)

\* the calls of fetchCharacterDetail for item i run alone, one after the
\* other, from call t on: the states the call goes through
RECURSIVE Alone(_, _, _)
Alone(s, i, t) ==
    IF Settled(t) THEN <<t>>
    ELSE <<t>> \o Alone(s, i, IF t.st = "request"
                              THEN OnDetailReply(t, i, ScriptReply(s, i, t))
                              ELSE OnDetailContinuation(t, i, ScriptReply(s, i, t)))

\* the requestAnalysis calls among the first k states of a run
FirstRequests(run, k) == Cardinality({ j \in 1..k : run[j].st = "request" })

\* C39: with replies that depend on the item only, the pool's outcome does
\* not depend on its size or on the interleaving: at every moment an item
\* that was started is in a state of its run alone and has sent the requests
\* of that run up to there; and when the pool is done, results holds for
\* every item, in roster order, the value its run alone returns.  Pool size
\* 1 is one of the pool sizes.
C39_PoolIndependent ==
    /\ call.fn = "runWithConcurrency"
    /\ \A i \in DOMAIN tasks :
          LET run == Alone(call.oracle[i], i, NewAttempt(PendingTask, 0))
          IN /\ \/ launched[i] = 0 /\ tasks[i] = PendingTask /\ detailReqs[i] = 0
                \/ /\ launched[i] = 1
                   /\ \E k \in DOMAIN run :
                         /\ tasks[i] = run[k]
                         /\ detailReqs[i] = FirstRequests(run, k)
             /\ PoolFulfilled(workers) =>
                   /\ tasks[i] = run[Len(run)]
                   /\ results[i] = run[Len(run)].value
                   /\ detailReqs[i] = FirstRequests(run, Len(run))

\* a pool of two workers is done with three tasks that did not finish in
\* roster order: one skipped, one retried, one that got its profile at once
C39_OutOfOrderPool ==
    /\ call.fn = "runWithConcurrency"
    /\ call.concurrency = 2 /\ call.n = 3
    /\ PoolFulfilled(workers)
    /\ finishSeq # <<1, 2, 3>>
    /\ results[1] = NULL /\ detailReqs[1] = MAX_CHARACTER_RETRIES + 1
    /\ results[2] = Profile(2) /\ detailReqs[2] = 2
    /\ results[3] = Profile(3) /\ detailReqs[3] = 1

\* the call as it would be without a sink
WithoutSink(t) == [t EXCEPT !.sink = FALSE, !.said = "none"]

====
